---- MODULE Spec2Model ----
(***************************************************************************)
(* A model of the ConfigMapSource reconciler (src/controller.go).          *)
(*                                                                         *)
(* One pass of Reconcile is a sequence of steps, one per call of the       *)
(* storage API; the local computation that follows a call belongs to the   *)
(* step of that call.  Between two steps of a pass the environment (other  *)
(* writers of the cluster, the clock, the source) may act.  The dispatcher *)
(* runs at most one pass per record at a time.                             *)
(*                                                                         *)
(* The ConfigMapSync reconciler (src/internal/controller/                  *)
(* configmapsync_controller.go) is modelled the same way in the variable   *)
(* sync, and the functions of src/controller.go that are checked alone     *)
(* are applied in the variable calc; each has its own specification.       *)
(***************************************************************************)
EXTENDS Integers, Sequences, FiniteSets, TLC

(***************************************************************************)
(* Bounds of the model.                                                    *)
(***************************************************************************)
\* the number of events of the environment in one behaviour: a failed call
\* of the storage API or of a source, a write of another client to a target
\* artifact, a change of a source's content, an edit of a record's spec, a
\* tick of the clock metav1.Now() reads
MaxEvents == 2

(***************************************************************************)
(* Names: records, partitions (namespaces), identities.                    *)
(***************************************************************************)
Reqs == {"A", "B"}
Namespaces == {"ns1", "ns2"}
\* metadata.namespace of a record: both records live in the same partition
Namespace(r) == "ns1"
\* metadata.uid of a record
UID(r) == IF r = "A" THEN "uid-A" ELSE "uid-B"
\* the identity of an owner that is no ConfigMapSource of the model
ForeignUID == "uid-x"
External == "external"

(***************************************************************************)
(* Content maps: map[string]string.  A string is the sequence of its       *)
(* bytes; the bytes 1, 2, 3 stand for 'a', 'b', 'c'.                       *)
(***************************************************************************)
KeyA == <<1>>
KeyAB == <<1, 2>>
ValC == <<3>>
ValBC == <<2, 3>>
Keys == {KeyA, KeyAB}
Vals == {ValC, ValBC}
AllMaps == UNION {[K -> Vals] : K \in SUBSET Keys}

EmptyMap == [k \in {} |-> ValC]
MapAB_C == [k \in {KeyAB} |-> ValC]
MapA_BC == [k \in {KeyA} |-> ValBC]
MapBoth == [k \in {KeyA, KeyAB} |-> ValC]
\* the content maps the sources of the model hold
Contents == {EmptyMap, MapAB_C, MapA_BC, MapBoth}
\* the content maps the other clients of the model write
ExternalContents == {MapA_BC, MapBoth}

(***************************************************************************)
(* calculateConfigHash: the keys sorted as sort.Strings sorts them (byte   *)
(* by byte, a proper prefix first), each key followed by its value written *)
(* to the hash, the sum rendered as a hex string.                          *)
(***************************************************************************)
RECURSIVE StringLess(_, _)
StringLess(s, t) ==
    IF s = <<>> THEN t # <<>>
    ELSE IF t = <<>> THEN FALSE
    ELSE IF Head(s) # Head(t) THEN Head(s) < Head(t)
    ELSE StringLess(Tail(s), Tail(t))

RECURSIVE SortStrings(_)
SortStrings(S) ==
    IF S = {} THEN <<>>
    ELSE LET m == CHOOSE x \in S : \A y \in S \ {x} : StringLess(x, y)
         IN  <<m>> \o SortStrings(S \ {m})

\* faulty variants of HashWrites: the values are not written; a zero byte
\* is written after every key and every value
RECURSIVE HashWrites_KeysOnly(_, _)
HashWrites_KeysOnly(keys, configData) ==
    IF keys = <<>> THEN <<>>
    ELSE Head(keys) \o HashWrites_KeysOnly(Tail(keys), configData)
RECURSIVE HashWrites_Delimited(_, _)
HashWrites_Delimited(keys, configData) ==
    IF keys = <<>> THEN <<>>
    ELSE Head(keys) \o <<0>> \o configData[Head(keys)] \o <<0>>
         \o HashWrites_Delimited(Tail(keys), configData)
RECURSIVE HashWrites(_, _)
HashWrites(keys, configData) ==
    IF keys = <<>> THEN <<>>
    ELSE Head(keys) \o configData[Head(keys)] \o HashWrites(Tail(keys), configData)

\* sha256 taken as injective: the sum is the byte sequence written to the hash
Sum256(bytes) == bytes
\* a faulty variant of EncodeToString: the sum of nothing written is rendered ""
EncodeToString_Raw(sum) == sum
\* hex.EncodeToString of a 32 byte sum is a string of 64 characters, never ""
EncodeToString(sum) == <<sum>>

calculateConfigHash(configData) ==
    EncodeToString(Sum256(HashWrites(SortStrings(DOMAIN configData), configData)))

\* the empty string, the value of a LastSyncHash never set
EmptyString == <<>>

(***************************************************************************)
(* The ConfigMapSource record (src/internal/controller/                    *)
(* configmapsync_controller.go, the types of api/v1alpha1).  A Go pointer  *)
(* is <<>> when nil and <<v>> when it points to v.                         *)
(***************************************************************************)
FinalizerName == "configmapsource.config.example.com/finalizer"
KnownSourceTypes == {"Git", "File", "ConfigMap", "Secret"}
\* spec.sourceType with the descriptor of that type set or nil: a valid
\* source, a missing descriptor and an unknown type
SourceChoices ==
    { [sourceType |-> "ConfigMap", descriptor |-> TRUE],
      [sourceType |-> "Git", descriptor |-> FALSE],
      [sourceType |-> "Bogus", descriptor |-> FALSE] }
\* spec.refreshInterval: nil, zero, thirty seconds
RefreshChoices == {<<>>, <<0>>, <<30>>}
\* spec.targetNamespace: "" stands for not specified
TargetNamespaceChoices == {""} \cup Namespaces

ConfigMapSourceSpec ==
    { [sourceType |-> s.sourceType, descriptor |-> s.descriptor,
       targetNamespace |-> n, refreshInterval |-> i] :
         s \in SourceChoices, n \in TargetNamespaceChoices, i \in RefreshChoices }
\* the specs the records of the model are created with: every target
\* namespace and refresh interval with the valid source, one spec for each
\* of the invalid ones
InitialSpecs ==
    { s \in ConfigMapSourceSpec :
        \/ s.descriptor
        \/ s.targetNamespace = "" /\ s.refreshInterval = <<30>> }

ConfigMapSourceStatus ==
    [lastSyncTime |-> <<>>, lastSyncHash |-> EmptyString, conditions |-> <<>>]

\* a record as the API server has it right after its creation
ConfigMapSource(spec) ==
    [exists |-> TRUE, finalizers |-> {}, deleting |-> FALSE, generation |-> 1,
     spec |-> spec, status |-> ConfigMapSourceStatus]

\* no record: never created, or erased by the API server
NoSpec ==
    [sourceType |-> "", descriptor |-> FALSE, targetNamespace |-> "",
     refreshInterval |-> <<>>]
NoRecord ==
    [exists |-> FALSE, finalizers |-> {}, deleting |-> FALSE, generation |-> 0,
     spec |-> NoSpec, status |-> ConfigMapSourceStatus]

\* ctrl.Result and the error of a pass: requeueAfter in seconds, 0 for none
Result(requeueAfter, err) == [requeueAfter |-> requeueAfter, err |-> err]
NoError == ""
\* time.Minute in seconds
Minute == 60

(***************************************************************************)
(* The state.                                                              *)
(***************************************************************************)
VARIABLES
    cms,      \* cms[r]: the ConfigMapSource record r in the API server
    cm,       \* cm[n]: the ConfigMap named spec.targetConfigMap in namespace n,
              \*        <<>> when there is none, else <<the ConfigMap>>
    src,      \* src[r]: the content map the source of r holds
    clock,    \* what metav1.Now() returns
    events,   \* the events of the environment so far
    pass,     \* pass[r]: the running pass of Reconcile for r, its local
              \*          variables, and the record of what it has done
    written,  \* written[r]: <<the content map r last wrote to its target>>,
              \*             <<>> when it has written none
    sync,     \* the ConfigMapSync reconciler and its cluster: see below
    calc      \* the inputs and the results of the functions applied alone

vars == <<cms, cm, src, clock, events, pass, written, sync, calc>>

\* The local variables of a pass that has not started.  Three fields record
\* what the pass does: calls, the calls it has made of the API and of the
\* source; before, the record as it was when the pass began; previous,
\* <<the content map the pass before this one fetched>> when that pass was
\* an active pass that returned no error, else <<>>.
Idle ==
    [pc |-> "idle",
     configMapSource |-> NoRecord,
     targetNamespace |-> "",
     configData |-> EmptyMap,
     configHash |-> EmptyString,
     fetchErr |-> NoError,
     configMapExists |-> FALSE,
     targetConfigMap |-> <<>>,
     result |-> Result(0, NoError),
     calls |-> {},
     before |-> NoRecord,
     previous |-> <<>>]

(***************************************************************************)
(* Helpers of the reconciler and of controllerutil.                        *)
(***************************************************************************)
\* a faulty variant of DeletionRequested: no record passes for one under deletion
DeletionRequested_Never(o) == FALSE
\* line 75: !configMapSource.DeletionTimestamp.IsZero()
DeletionRequested(o) == o.deleting
ContainsFinalizer(o, finalizer) == finalizer \in o.finalizers
AddFinalizer(o, finalizer) == [o EXCEPT !.finalizers = @ \cup {finalizer}]
\* a faulty variant of RemoveFinalizer: the finalizer stays
RemoveFinalizer_None(o, finalizer) == o
RemoveFinalizer(o, finalizer) == [o EXCEPT !.finalizers = @ \ {finalizer}]

\* targetNamespace := spec.targetNamespace, the record's own when ""
TargetNamespace(r, o) ==
    IF o.spec.targetNamespace = "" THEN Namespace(r) ELSE o.spec.targetNamespace

\* a ConfigMap; createdBy and writtenBy record who created it and which
\* reconcilers have written it since
ConfigMap(data, ownerReferences, createdBy) ==
    [data |-> data, ownerReferences |-> ownerReferences,
     createdBy |-> createdBy, writtenBy |-> {createdBy} \ {External}]

\* faulty variants of isOwnedBy: every ConfigMap passes for owned, none does
isOwnedBy_Always(obj, owner) == TRUE
isOwnedBy_AnyOwner(obj, owner) == obj.ownerReferences # {}
isOwnedBy_Never(obj, owner) == FALSE
isOwnedBy(obj, owner) == \E ref \in obj.ownerReferences : ref = UID(owner)

\* a faulty variant of SetControllerReference: no owner reference is added
SetControllerReference_None(owner, obj) == obj
\* controllerutil.SetControllerReference on an object that has no owner yet
SetControllerReference(owner, obj) ==
    [obj EXCEPT !.ownerReferences = @ \cup {UID(owner)}]

\* a faulty variant of requeueBasedOnRefreshInterval: the interval is ignored
requeueBasedOnRefreshInterval_None(o) == Result(0, NoError)
requeueBasedOnRefreshInterval(o) ==
    IF o.spec.refreshInterval # <<>> /\ o.spec.refreshInterval[1] > 0
    THEN Result(o.spec.refreshInterval[1], NoError)
    ELSE Result(0, NoError)

Condition(type, status, reason, message) ==
    [type |-> type, status |-> status, reason |-> reason, message |-> message,
     lastTransitionTime |-> 0, observedGeneration |-> 0]

\* the index of the first condition of the type, 0 for none (-1 in the code)
ConditionIndex(conditions, type) ==
    IF \E i \in 1..Len(conditions) : conditions[i].type = type
    THEN CHOOSE i \in 1..Len(conditions) :
            /\ conditions[i].type = type
            /\ \A j \in 1..(i - 1) : conditions[j].type # type
    ELSE 0

\* a faulty variant of setStatusCondition: lastTransitionTime is kept when the
\* status of the condition is the one it had
setStatusCondition_KeepsTransitionTime(o, condition, now) ==
    LET conditionIndex == ConditionIndex(o.status.conditions, condition.type)
        c == [condition EXCEPT !.lastTransitionTime = now,
                               !.observedGeneration = o.generation]
        existing == o.status.conditions[conditionIndex]
    IN  IF conditionIndex # 0
        THEN [o EXCEPT !.status.conditions[conditionIndex] =
                 IF existing.status = c.status
                 THEN [c EXCEPT !.lastTransitionTime = existing.lastTransitionTime]
                 ELSE c]
        ELSE [o EXCEPT !.status.conditions = Append(@, c)]

\* lines 502-528
setStatusCondition(o, condition, now) ==
    LET conditionIndex == ConditionIndex(o.status.conditions, condition.type)
        c == [condition EXCEPT !.lastTransitionTime = now,
                               !.observedGeneration = o.generation]
    IN  IF conditionIndex # 0
        THEN [o EXCEPT !.status.conditions[conditionIndex] = c]
        ELSE [o EXCEPT !.status.conditions = Append(@, c)]

\* a faulty variant of ConfigurationError: every spec passes for valid
ConfigurationError_None(o) == NoError
\* the error fetchConfigData returns whatever the source holds: an unknown
\* source type, or a nil descriptor for the type
ConfigurationError(o) ==
    IF o.spec.sourceType \notin KnownSourceTypes THEN "unsupported source type"
    ELSE IF ~o.spec.descriptor THEN "source configuration is missing"
    ELSE NoError

(***************************************************************************)
(* The storage API as the reconciler meets it.  A write of a record fails  *)
(* with a conflict when the record was written by another client since    *)
(* the pass read it: every such write changes deleting or generation.      *)
(***************************************************************************)
Version(o) == [o EXCEPT !.status = ConfigMapSourceStatus]
Conflict(r, o) == ~cms[r].exists \/ Version(cms[r]) # Version(o)

\* the API server erases a record under deletion once its finalizers are gone
Stored(o) == IF o.deleting /\ o.finalizers = {} THEN NoRecord ELSE o

\* r.Update writes metadata and spec, r.Status().Update writes the status
UpdateOf(r, o) == Stored([o EXCEPT !.status = cms[r].status])
StatusUpdateOf(r, o) == [cms[r] EXCEPT !.status = o.status]

Finish(p, result) == [p EXCEPT !.pc = "done", !.result = result]
Call(p, call) == [p EXCEPT !.calls = @ \cup {call}]
\* the environment may cause one more event
Fault == events < MaxEvents

(***************************************************************************)
(* Reconcile, lines 47-77: read the record, attach the finalizer.          *)
(***************************************************************************)
Get(r) ==
    /\ pass[r].pc = "idle"
    /\ LET p == [Idle EXCEPT !.calls = {"Get"}, !.before = cms[r],
                             !.previous = pass[r].previous]
       IN  \/ /\ ~cms[r].exists
              /\ pass' = [pass EXCEPT ![r] = Finish(p, Result(0, NoError))]
              /\ UNCHANGED events
           \/ /\ cms[r].exists
              /\ Fault
              /\ events' = events + 1
              /\ pass' = [pass EXCEPT ![r] = Finish(p, Result(0, "get failed"))]
           \/ /\ cms[r].exists
              /\ pass' = [pass EXCEPT ![r] =
                            [p EXCEPT !.pc = "loaded", !.configMapSource = cms[r]]]
              /\ UNCHANGED events
    /\ UNCHANGED <<cms, cm, src, clock, written, sync, calc>>

\* a faulty variant of AttachFinalizer: the pass goes on once the finalizer is stored
AttachFinalizer_GoesOn(r) ==
    LET p == Call(pass[r], "Update")
        o == pass[r].configMapSource
    IN  /\ pass[r].pc = "loaded"
        /\ ~ContainsFinalizer(o, FinalizerName)
        /\ ~Conflict(r, o)
        /\ cms' = [cms EXCEPT ![r] = UpdateOf(r, AddFinalizer(o, FinalizerName))]
        /\ pass' = [pass EXCEPT ![r] =
                      [p EXCEPT !.configMapSource = AddFinalizer(o, FinalizerName)]]
        /\ UNCHANGED <<cm, src, clock, events, written, sync, calc>>

\* lines 64-72
AttachFinalizer(r) ==
    LET p == Call(pass[r], "Update")
        o == pass[r].configMapSource
    IN  /\ pass[r].pc = "loaded"
        /\ ~ContainsFinalizer(o, FinalizerName)
        /\ \/ /\ Conflict(r, o)
              /\ pass' = [pass EXCEPT ![r] = Finish(p, Result(0, "conflict"))]
              /\ UNCHANGED <<cms, events>>
           \/ /\ ~Conflict(r, o)
              /\ Fault
              /\ events' = events + 1
              /\ pass' = [pass EXCEPT ![r] = Finish(p, Result(0, "update failed"))]
              /\ UNCHANGED cms
           \/ /\ ~Conflict(r, o)
              /\ cms' = [cms EXCEPT ![r] = UpdateOf(r, AddFinalizer(o, FinalizerName))]
              /\ pass' = [pass EXCEPT ![r] = Finish(p, Result(0, NoError))]
              /\ UNCHANGED events
        /\ UNCHANGED <<cm, src, clock, written, sync, calc>>

\* the pass has returned: the dispatcher may deliver the record again
Return(r) ==
    /\ pass[r].pc = "done"
    /\ pass' = [pass EXCEPT ![r] =
                  [Idle EXCEPT !.previous =
                      IF "Fetch" \in pass[r].calls /\ pass[r].result.err = NoError
                      THEN <<pass[r].configData>> ELSE <<>>]]
    /\ UNCHANGED <<cms, cm, src, clock, events, written, sync, calc>>

(***************************************************************************)
(* reconcileDelete, lines 192-239.                                         *)
(***************************************************************************)
DeleteReadTarget(r) ==
    LET o == pass[r].configMapSource
        targetNamespace == TargetNamespace(r, o)
        p == Call([pass[r] EXCEPT !.targetNamespace = targetNamespace], "GetTarget")
    IN  /\ pass[r].pc = "loaded"
        /\ ContainsFinalizer(o, FinalizerName)
        /\ DeletionRequested(o)
        /\ Namespace(r) = targetNamespace
        /\ \/ /\ Fault
              /\ events' = events + 1
              /\ pass' = [pass EXCEPT ![r] = Finish(p, Result(0, "get target failed"))]
           \/ /\ cm[targetNamespace] = <<>>
              /\ pass' = [pass EXCEPT ![r] = [p EXCEPT !.pc = "removeFinalizer"]]
              /\ UNCHANGED events
           \/ /\ cm[targetNamespace] # <<>>
              /\ pass' = [pass EXCEPT ![r] =
                            [p EXCEPT !.configMapExists = TRUE,
                                      !.targetConfigMap = cm[targetNamespace],
                                      !.pc = IF isOwnedBy(cm[targetNamespace][1], r)
                                             THEN "delete" ELSE "removeFinalizer"]]
              /\ UNCHANGED events
        /\ UNCHANGED <<cms, cm, src, clock, written, sync, calc>>

\* a faulty variant of DeleteTarget: every error of r.Delete is ignored
DeleteTarget_AnyErrorIgnored(r) ==
    LET p == Call(pass[r], "DeleteTarget")
        targetNamespace == pass[r].targetNamespace
    IN  /\ pass[r].pc = "delete"
        /\ \/ /\ Fault
              /\ events' = events + 1
              /\ pass' = [pass EXCEPT ![r] = [p EXCEPT !.pc = "removeFinalizer"]]
              /\ UNCHANGED cm
           \/ /\ cm' = [cm EXCEPT ![targetNamespace] = <<>>]
              /\ pass' = [pass EXCEPT ![r] = [p EXCEPT !.pc = "removeFinalizer"]]
              /\ UNCHANGED events
        /\ UNCHANGED <<cms, src, clock, written, sync, calc>>

\* r.Delete names the ConfigMap and sets no precondition
DeleteTarget(r) ==
    LET p == Call(pass[r], "DeleteTarget")
        targetNamespace == pass[r].targetNamespace
    IN  /\ pass[r].pc = "delete"
        /\ \/ /\ Fault
              /\ events' = events + 1
              /\ pass' = [pass EXCEPT ![r] = Finish(p, Result(0, "delete failed"))]
              /\ UNCHANGED cm
           \/ /\ cm[targetNamespace] = <<>>
              /\ pass' = [pass EXCEPT ![r] = [p EXCEPT !.pc = "removeFinalizer"]]
              /\ UNCHANGED <<cm, events>>
           \/ /\ cm[targetNamespace] # <<>>
              /\ cm' = [cm EXCEPT ![targetNamespace] = <<>>]
              /\ pass' = [pass EXCEPT ![r] = [p EXCEPT !.pc = "removeFinalizer"]]
              /\ UNCHANGED events
        /\ UNCHANGED <<cms, src, clock, written, sync, calc>>

DetachFinalizer(r) ==
    LET o == pass[r].configMapSource
        targetNamespace == TargetNamespace(r, o)
        p == Call([pass[r] EXCEPT !.targetNamespace = targetNamespace], "Update")
    IN  /\ \/ pass[r].pc = "removeFinalizer"
           \/ /\ pass[r].pc = "loaded"
              /\ ContainsFinalizer(o, FinalizerName)
              /\ DeletionRequested(o)
              /\ Namespace(r) # targetNamespace
        /\ \/ /\ Conflict(r, o)
              /\ pass' = [pass EXCEPT ![r] = Finish(p, Result(0, "conflict"))]
              /\ UNCHANGED <<cms, events>>
           \/ /\ ~Conflict(r, o)
              /\ Fault
              /\ events' = events + 1
              /\ pass' = [pass EXCEPT ![r] = Finish(p, Result(0, "update failed"))]
              /\ UNCHANGED cms
           \/ /\ ~Conflict(r, o)
              /\ cms' = [cms EXCEPT ![r] = UpdateOf(r, RemoveFinalizer(o, FinalizerName))]
              /\ pass' = [pass EXCEPT ![r] = Finish(p, Result(0, NoError))]
              /\ UNCHANGED events
        /\ UNCHANGED <<cm, src, clock, written, sync, calc>>

(***************************************************************************)
(* Reconcile, lines 79-118: fetch, fingerprint, the unchanged path.        *)
(***************************************************************************)
\* a faulty variant of FetchFailed: the failed pass stamps lastSyncTime too
FetchFailed_Stamped(p, err, now) ==
    [p EXCEPT !.pc = "statusFetchFailed",
              !.fetchErr = err,
              !.configMapSource =
                  setStatusCondition(
                      [p.configMapSource EXCEPT !.status.lastSyncTime = <<now>>],
                      Condition("Ready", "False", "FetchFailed", err), now)]
\* lines 87-94: the fetch has failed with err
FetchFailed(p, err, now) ==
    [p EXCEPT !.pc = "statusFetchFailed",
              !.fetchErr = err,
              !.configMapSource =
                  setStatusCondition(p.configMapSource,
                      Condition("Ready", "False", "FetchFailed", err), now)]

\* a faulty variant of FetchFailedResult: the retry follows the refresh interval
FetchFailedResult_Refresh(o, err) ==
    Result(requeueBasedOnRefreshInterval(o).requeueAfter, err)
\* line 99: what a pass returns after a failed fetch
FetchFailedResult(o, err) == Result(Minute, err)

\* a faulty variant of Unchanged: a target that is gone passes for a change
Unchanged_UnlessTargetGone(configHash, o) ==
    /\ configHash = o.status.lastSyncHash
    /\ cm[TargetNamespace("A", o)] # <<>>
\* a faulty variant of Unchanged: every fetch passes for a change
Unchanged_Never(configHash, o) == FALSE
\* line 106: the change detection
Unchanged(configHash, o) == configHash = o.status.lastSyncHash

\* a faulty variant of UnchangedStatus: the Ready condition is set as after a sync
UnchangedStatus_Ready(p, now) ==
    [p EXCEPT !.pc = "statusUnchanged",
              !.configMapSource =
                  setStatusCondition(
                      [p.configMapSource EXCEPT !.status.lastSyncTime = <<now>>],
                      Condition("Ready", "True", "SyncSuccess",
                                "Successfully synced configuration data"), now)]
\* lines 109-110: the status of a pass that found the fingerprint unchanged
UnchangedStatus(p, now) ==
    [p EXCEPT !.pc = "statusUnchanged",
              !.configMapSource.status.lastSyncTime = <<now>>]

Fetch(r) ==
    LET o == pass[r].configMapSource
        targetNamespace == TargetNamespace(r, o)
        p == Call([pass[r] EXCEPT !.targetNamespace = targetNamespace], "Fetch")
        failed(err) == FetchFailed(p, err, clock)
        configData == src[r]
        configHash == calculateConfigHash(configData)
        fetched == [p EXCEPT !.configData = configData, !.configHash = configHash]
    IN  /\ pass[r].pc = "loaded"
        /\ ContainsFinalizer(o, FinalizerName)
        /\ ~DeletionRequested(o)
        /\ \/ /\ ConfigurationError(o) # NoError
              /\ pass' = [pass EXCEPT ![r] = failed(ConfigurationError(o))]
              /\ UNCHANGED events
           \/ /\ ConfigurationError(o) = NoError
              /\ Fault
              /\ events' = events + 1
              /\ pass' = [pass EXCEPT ![r] = failed("fetch failed")]
           \/ /\ ConfigurationError(o) = NoError
              /\ Unchanged(configHash, o)
              /\ pass' = [pass EXCEPT ![r] = UnchangedStatus(fetched, clock)]
              /\ UNCHANGED events
           \/ /\ ConfigurationError(o) = NoError
              /\ ~Unchanged(configHash, o)
              /\ pass' = [pass EXCEPT ![r] = [fetched EXCEPT !.pc = "getTarget"]]
              /\ UNCHANGED events
        /\ UNCHANGED <<cms, cm, src, clock, written, sync, calc>>

\* lines 95-99: the status write may fail, the pass returns the fetch error
StatusFetchFailed(r) ==
    LET o == pass[r].configMapSource
        p == Finish(Call(pass[r], "StatusUpdate"), FetchFailedResult(o, pass[r].fetchErr))
    IN  /\ pass[r].pc = "statusFetchFailed"
        /\ pass' = [pass EXCEPT ![r] = p]
        /\ \/ /\ Conflict(r, o)
              /\ UNCHANGED <<cms, events>>
           \/ /\ ~Conflict(r, o)
              /\ Fault
              /\ events' = events + 1
              /\ UNCHANGED cms
           \/ /\ ~Conflict(r, o)
              /\ cms' = [cms EXCEPT ![r] = StatusUpdateOf(r, o)]
              /\ UNCHANGED events
        /\ UNCHANGED <<cm, src, clock, written, sync, calc>>

\* a status write whose error ends the pass: lines 111-117 and 180-188
StatusWrite(r, pc) ==
    LET o == pass[r].configMapSource
        p == Call(pass[r], "StatusUpdate")
    IN  /\ pass[r].pc = pc
        /\ \/ /\ Conflict(r, o)
              /\ pass' = [pass EXCEPT ![r] = Finish(p, Result(0, "conflict"))]
              /\ UNCHANGED <<cms, events>>
           \/ /\ ~Conflict(r, o)
              /\ Fault
              /\ events' = events + 1
              /\ pass' = [pass EXCEPT ![r] = Finish(p, Result(0, "status update failed"))]
              /\ UNCHANGED cms
           \/ /\ ~Conflict(r, o)
              /\ cms' = [cms EXCEPT ![r] = StatusUpdateOf(r, o)]
              /\ pass' = [pass EXCEPT ![r] = Finish(p, requeueBasedOnRefreshInterval(o))]
              /\ UNCHANGED events
        /\ UNCHANGED <<cm, src, clock, written, sync, calc>>

StatusUnchanged(r) == StatusWrite(r, "statusUnchanged")

(***************************************************************************)
(* Reconcile, lines 120-189: the target ConfigMap and the status.          *)
(***************************************************************************)
\* a faulty variant of TargetError: the error is handled as a failed fetch is
TargetError_AsFetchFailure(p, err) ==
    Finish([p EXCEPT !.configMapSource =
                setStatusCondition(p.configMapSource,
                    Condition("Ready", "False", "SyncFailed", err), 0)],
           Result(Minute, err))
\* lines 128-130, 147-150, 157-160, 163-166: an error of the read, the update
\* or the create of the target is returned as it is
TargetError(p, err) == Finish(p, Result(0, err))

ReadTarget(r) ==
    LET p == Call(pass[r], "GetTarget")
        targetNamespace == pass[r].targetNamespace
    IN  /\ pass[r].pc = "getTarget"
        /\ \/ /\ Fault
              /\ events' = events + 1
              /\ pass' = [pass EXCEPT ![r] = TargetError(p, "get target failed")]
           \/ /\ cm[targetNamespace] = <<>>
              /\ pass' = [pass EXCEPT ![r] =
                            [p EXCEPT !.pc = "create",
                                      !.configMapExists = FALSE,
                                      !.targetConfigMap = <<ConfigMap(EmptyMap, {}, r)>>]]
              /\ UNCHANGED events
           \/ /\ cm[targetNamespace] # <<>>
              /\ pass' = [pass EXCEPT ![r] =
                            [p EXCEPT !.pc = "update",
                                      !.configMapExists = TRUE,
                                      !.targetConfigMap = cm[targetNamespace]]]
              /\ UNCHANGED events
        /\ UNCHANGED <<cms, cm, src, clock, written, sync, calc>>

\* a faulty variant of Synced: the Ready condition is not set
Synced_NoCondition(p, now) ==
    [p EXCEPT !.pc = "statusSynced",
              !.configMapSource.status.lastSyncTime = <<now>>,
              !.configMapSource.status.lastSyncHash = p.configHash]
\* a faulty variant of Synced: the hash stored is that of the ConfigMap's data as read
Synced_HashOfRead(p, now) ==
    [p EXCEPT !.pc = "statusSynced",
              !.configMapSource =
                  setStatusCondition(
                      [p.configMapSource EXCEPT
                          !.status.lastSyncTime = <<now>>,
                          !.status.lastSyncHash =
                              calculateConfigHash(p.targetConfigMap[1].data)],
                      Condition("Ready", "True", "SyncSuccess",
                                "Successfully synced configuration data"), now)]
\* lines 170-179: the status a pass writes after it has written the target
Synced(p, now) ==
    [p EXCEPT !.pc = "statusSynced",
              !.configMapSource =
                  setStatusCondition(
                      [p.configMapSource EXCEPT !.status.lastSyncTime = <<now>>,
                                                !.status.lastSyncHash = p.configHash],
                      Condition("Ready", "True", "SyncSuccess",
                                "Successfully synced configuration data"), now)]

\* a faulty variant of ReplaceData: the update adds the owner reference of A
ReplaceData_Adopting(targetConfigMap, configData) ==
    [targetConfigMap EXCEPT !.data = configData,
                            !.ownerReferences = @ \cup {UID("A")}]
\* a faulty variant of ReplaceData: data that is there already is kept
ReplaceData_FirstWins(targetConfigMap, configData) ==
    IF targetConfigMap.data # EmptyMap
    THEN targetConfigMap
    ELSE [targetConfigMap EXCEPT !.data = configData]
\* line 145: targetConfigMap.Data = configData
ReplaceData_Merged(targetConfigMap, configData) ==
    [targetConfigMap EXCEPT !.data =
        [k \in DOMAIN targetConfigMap.data \cup DOMAIN configData |->
            IF k \in DOMAIN configData THEN configData[k] ELSE targetConfigMap.data[k]]]
ReplaceData(targetConfigMap, configData) ==
    [targetConfigMap EXCEPT !.data = configData]

\* lines 145-151: the ConfigMap as read with its data replaced; the API server
\* refuses the write when the ConfigMap has changed since it was read
UpdateTarget(r) ==
    LET p == Call(pass[r], "UpdateTarget")
        targetNamespace == pass[r].targetNamespace
        targetConfigMap == ReplaceData(pass[r].targetConfigMap[1], pass[r].configData)
    IN  /\ pass[r].pc = "update"
        /\ \/ /\ cm[targetNamespace] # pass[r].targetConfigMap
              /\ pass' = [pass EXCEPT ![r] = TargetError(p, "conflict")]
              /\ UNCHANGED <<cm, events, written>>
           \/ /\ cm[targetNamespace] = pass[r].targetConfigMap
              /\ Fault
              /\ events' = events + 1
              /\ pass' = [pass EXCEPT ![r] = TargetError(p, "update target failed")]
              /\ UNCHANGED <<cm, written>>
           \/ /\ cm[targetNamespace] = pass[r].targetConfigMap
              /\ cm' = [cm EXCEPT ![targetNamespace] =
                          <<[targetConfigMap EXCEPT !.writtenBy = @ \cup {r}]>>]
              /\ written' = [written EXCEPT ![r] = <<pass[r].configData>>]
              /\ pass' = [pass EXCEPT ![r] = Synced(p, clock)]
              /\ UNCHANGED events
        /\ UNCHANGED <<cms, src, clock, sync, calc>>

\* lines 152-168: a new ConfigMap, owned when in the record's own namespace
CreateTarget(r) ==
    LET p == Call(pass[r], "CreateTarget")
        targetNamespace == pass[r].targetNamespace
        withData == [pass[r].targetConfigMap[1] EXCEPT !.data = pass[r].configData]
        targetConfigMap ==
            IF Namespace(r) = targetNamespace
            THEN SetControllerReference(r, withData) ELSE withData
    IN  /\ pass[r].pc = "create"
        /\ \/ /\ cm[targetNamespace] # <<>>
              /\ pass' = [pass EXCEPT ![r] = TargetError(p, "already exists")]
              /\ UNCHANGED <<cm, events, written>>
           \/ /\ cm[targetNamespace] = <<>>
              /\ Fault
              /\ events' = events + 1
              /\ pass' = [pass EXCEPT ![r] = TargetError(p, "create target failed")]
              /\ UNCHANGED <<cm, written>>
           \/ /\ cm[targetNamespace] = <<>>
              /\ cm' = [cm EXCEPT ![targetNamespace] = <<targetConfigMap>>]
              /\ written' = [written EXCEPT ![r] = <<pass[r].configData>>]
              /\ pass' = [pass EXCEPT ![r] = Synced(p, clock)]
              /\ UNCHANGED events
        /\ UNCHANGED <<cms, src, clock, sync, calc>>

StatusSynced(r) == StatusWrite(r, "statusSynced")

(***************************************************************************)
(* The environment: the clock, the sources, the other clients of the API   *)
(* server.                                                                 *)
(***************************************************************************)
Tick ==
    /\ Fault
    /\ events' = events + 1
    /\ clock' = clock + 1
    /\ UNCHANGED <<cms, cm, src, pass, written, sync, calc>>

SourceChange(r) ==
    /\ Fault
    /\ events' = events + 1
    /\ \E c \in Contents \ {src[r]} : src' = [src EXCEPT ![r] = c]
    /\ UNCHANGED <<cms, cm, clock, pass, written, sync, calc>>

\* The other clients write the ConfigMap the record names as its target.
\* Another client creates the ConfigMap, with no owner or with its own
ExternalCreate(r) ==
    LET n == TargetNamespace(r, cms[r]) IN
    /\ cms[r].exists
    /\ Fault
    /\ events' = events + 1
    /\ cm[n] = <<>>
    /\ \E c \in ExternalContents, owners \in {{}, {ForeignUID}} :
          cm' = [cm EXCEPT ![n] = <<ConfigMap(c, owners, External)>>]
    /\ UNCHANGED <<cms, src, clock, pass, written, sync, calc>>

ExternalEdit(r) ==
    LET n == TargetNamespace(r, cms[r]) IN
    /\ cms[r].exists
    /\ Fault
    /\ events' = events + 1
    /\ cm[n] # <<>>
    /\ \E c \in ExternalContents \ {cm[n][1].data} :
          cm' = [cm EXCEPT ![n] = <<[cm[n][1] EXCEPT !.data = c]>>]
    /\ UNCHANGED <<cms, src, clock, pass, written, sync, calc>>

ExternalDelete(r) ==
    LET n == TargetNamespace(r, cms[r]) IN
    /\ cms[r].exists
    /\ Fault
    /\ events' = events + 1
    /\ cm[n] # <<>>
    /\ cm' = [cm EXCEPT ![n] = <<>>]
    /\ UNCHANGED <<cms, src, clock, pass, written, sync, calc>>

\* a client deletes the record: the API server sets the deletion timestamp,
\* and erases the record at once when it has no finalizer
RequestDeletion(r) ==
    /\ cms[r].exists
    /\ ~cms[r].deleting
    /\ cms' = [cms EXCEPT ![r] = Stored([cms[r] EXCEPT !.deleting = TRUE])]
    /\ UNCHANGED <<cm, src, clock, events, pass, written, sync, calc>>

\* a client edits spec.targetNamespace: the generation grows
EditTargetNamespace(r) ==
    /\ Fault
    /\ events' = events + 1
    /\ cms[r].exists
    /\ \E n \in TargetNamespaceChoices \ {cms[r].spec.targetNamespace} :
          cms' = [cms EXCEPT ![r].spec.targetNamespace = n,
                             ![r].generation = @ + 1]
    /\ UNCHANGED <<cm, src, clock, pass, written, sync, calc>>

(***************************************************************************)
(* The functions applied alone.  calc holds the inputs of one application  *)
(* and, once the function was applied, its results.                        *)
(***************************************************************************)
NoCalc == [pc |-> "none"]

(***************************************************************************)
(* The ConfigMapSync reconciler (src/internal/controller/                  *)
(* configmapsync_controller.go, lines 56-138): one source ConfigMap of the *)
(* record's namespace is copied to the namespaces spec.targetNameSpaces    *)
(* lists.  sync is the state of that system:                               *)
(*   configMapSync    the record in the API server                         *)
(*   sourceConfigMap  <<the source ConfigMap>>, <<>> when there is none    *)
(*   targets[n]       <<the ConfigMap of the source's name in n>>, or <<>> *)
(*   now              what time.Now() returns                              *)
(*   events           the events of the environment so far                 *)
(*   pass             the running pass of Reconcile, its local variables,  *)
(*                    and the record of what it has done                   *)
(***************************************************************************)
SyncNamespaces == {"ns1", "ns2", "ns3"}
\* configMapSync.Namespace
SyncNamespace == "ns1"
TargetNameSpacesChoices ==
    {<<"ns2", "ns3">>, <<"ns3", "ns2">>, <<"ns1", "ns2">>, <<"ns2">>}
\* labels are sets of <<key, value>>; {} is the nil map
LabelsTeamA == {<<"team", "a">>}
LabelsTeamB == {<<"team", "b">>}
LabelChoices == {{}, LabelsTeamA}
\* a ConfigMap of the fan-out: its labels, Data and BinaryData, and its
\* owner references, of which a ConfigMap built from a literal has none
Copy(labels, data, binaryData) ==
    [labels |-> labels, data |-> data, binaryData |-> binaryData,
     ownerReferences |-> {}]
\* the UID of the ConfigMapSync record
SyncUID == "uid-sync"
SourceChoices2 ==
    {Copy({}, d, b) : d \in {MapAB_C, MapBoth}, b \in {EmptyMap, MapA_BC}}
\* what other clients put in a target namespace
ExternalCopies ==
    {Copy(LabelsTeamB, MapA_BC, EmptyMap), Copy({}, MapAB_C, EmptyMap)}

ConfigMapSyncStatus == [lastSyncTime |-> <<>>, syncedNamespaces |-> <<>>]
ConfigMapSync(targetNameSpaces, labels) ==
    [exists |-> TRUE,
     finalizers |-> {},
     deleting |-> FALSE,
     spec |-> [targetNameSpaces |-> targetNameSpaces, labels |-> labels],
     status |-> ConfigMapSyncStatus]
NoConfigMapSync ==
    [exists |-> FALSE,
     finalizers |-> {},
     deleting |-> FALSE,
     spec |-> [targetNameSpaces |-> <<>>, labels |-> {}],
     status |-> ConfigMapSyncStatus]

\* The local variables of a fan-out pass that has not started.  i is the
\* index of the loop over spec.targetNameSpaces.  Four fields record what
\* the pass does: calls; before, the status of the record when the pass
\* began; outcome, one entry for each namespace the loop has finished,
\* "skipped", "ok" or "failed"; stored, whether its status update succeeded.
SyncIdle ==
    [pc |-> "idle",
     configMapSync |-> NoConfigMapSync,
     sourceConfigMap |-> <<>>,
     i |-> 1,
     read |-> <<>>,
     targetConfigMap |-> <<>>,
     syncedNamespaces |-> <<>>,
     result |-> Result(0, NoError),
     calls |-> {},
     before |-> ConfigMapSyncStatus,
     outcome |-> <<>>,
     stored |-> FALSE]

\* the fan-out system when there is no ConfigMapSync record at all
NoSync ==
    [configMapSync |-> NoConfigMapSync,
     sourceConfigMap |-> <<>>,
     targets |-> [n \in SyncNamespaces |-> <<>>],
     now |-> 0,
     events |-> 0,
     pass |-> SyncIdle]

SyncFault == sync.events < MaxEvents

\* line 74: the source ConfigMap is not there yet
RequeueSourceMissing_None == Result(0, NoError)
RequeueSourceMissing == Result(10, NoError)

\* line 137: requeue periodically
RequeuePeriodically_None == Result(0, NoError)
RequeuePeriodically == Result(5 * Minute, NoError)

\* lines 118-123: a namespace is recorded when CreateOrUpdate returned no error
AppendSynced_Always(syncedNamespaces, namespace, err) ==
    Append(syncedNamespaces, namespace)
AppendSynced(syncedNamespaces, namespace, err) ==
    IF err # NoError THEN syncedNamespaces
    ELSE Append(syncedNamespaces, namespace)

\* lines 127-129: the status the pass writes
SyncStatus(o, syncedNamespaces, now) ==
    [o EXCEPT !.status.lastSyncTime = <<now>>,
              !.status.syncedNamespaces = syncedNamespaces]

\* a faulty variant of NewTargetConfigMap: the controller reference is set
\* for every namespace
NewTargetConfigMap_Owned(o, sourceConfigMap, namespace) ==
    [Copy(o.spec.labels, sourceConfigMap.data, sourceConfigMap.binaryData)
        EXCEPT !.ownerReferences = {SyncUID}]
\* lines 92-110: the object handed to CreateOrUpdate; the controller
\* reference of lines 100-106 is for the namespace of the record
NewTargetConfigMap(o, sourceConfigMap, namespace) ==
    LET targetConfigMap ==
            Copy(o.spec.labels, sourceConfigMap.data, sourceConfigMap.binaryData)
    IN  IF namespace = SyncNamespace
        THEN [targetConfigMap EXCEPT !.ownerReferences = {SyncUID}]
        ELSE targetConfigMap
\* lines 112-116: the mutate function of CreateOrUpdate
Mutate(targetConfigMap, sourceConfigMap) ==
    [targetConfigMap EXCEPT !.data = sourceConfigMap.data,
                            !.binaryData = sourceConfigMap.binaryData]

\* the loop goes on to the next namespace: one iteration has ended with err
NextNamespace(p, outcome, err) ==
    [p EXCEPT !.pc = "loop",
              !.i = @ + 1,
              !.read = <<>>,
              !.targetConfigMap = <<>>,
              !.syncedNamespaces =
                  IF outcome = "skipped" THEN @
                  ELSE AppendSynced(@, p.configMapSync.spec.targetNameSpaces[p.i], err),
              !.outcome = Append(@, outcome)]

\* lines 60-66
SyncGet ==
    /\ sync.pass.pc = "idle"
    /\ LET p == [SyncIdle EXCEPT !.calls = {"Get"},
                                 !.before = sync.configMapSync.status]
       IN  \/ /\ ~sync.configMapSync.exists
              /\ sync' = [sync EXCEPT !.pass = Finish(p, Result(0, NoError))]
           \/ /\ sync.configMapSync.exists
              /\ SyncFault
              /\ sync' = [sync EXCEPT !.events = @ + 1,
                                      !.pass = Finish(p, Result(0, "get failed"))]
           \/ /\ sync.configMapSync.exists
              /\ sync' = [sync EXCEPT !.pass =
                            [p EXCEPT !.pc = "getSource",
                                      !.configMapSync = sync.configMapSync]]
    /\ UNCHANGED <<cms, cm, src, clock, events, pass, written, calc>>

\* lines 68-79
SyncGetSource ==
    /\ sync.pass.pc = "getSource"
    /\ LET p == Call(sync.pass, "GetSource")
       IN  \/ /\ sync.sourceConfigMap = <<>>
              /\ sync' = [sync EXCEPT !.pass = Finish(p, RequeueSourceMissing)]
           \/ /\ sync.sourceConfigMap # <<>>
              /\ SyncFault
              /\ sync' = [sync EXCEPT !.events = @ + 1,
                                      !.pass = Finish(p, Result(0, "get source failed"))]
           \/ /\ sync.sourceConfigMap # <<>>
              /\ sync' = [sync EXCEPT !.pass =
                            [p EXCEPT !.pc = "loop",
                                      !.sourceConfigMap = sync.sourceConfigMap]]
    /\ UNCHANGED <<cms, cm, src, clock, events, pass, written, calc>>

\* lines 85-89: the namespace of the record is skipped
SyncSkip ==
    LET p == sync.pass
        targetNameSpaces == p.configMapSync.spec.targetNameSpaces
    IN  /\ p.pc = "loop"
        /\ p.i <= Len(targetNameSpaces)
        /\ targetNameSpaces[p.i] = SyncNamespace
        /\ sync' = [sync EXCEPT !.pass = NextNamespace(p, "skipped", NoError)]
        /\ UNCHANGED <<cms, cm, src, clock, events, pass, written, calc>>

\* lines 91-116, controllerutil.CreateOrUpdate: the Get of the object.  A
\* ConfigMap found replaces the object the pass built, labels included; the
\* mutate function then sets Data and BinaryData; when that changes nothing
\* CreateOrUpdate returns without a write.
CreateOrUpdateGet ==
    LET p == Call(sync.pass, "GetTarget")
        targetNameSpaces == p.configMapSync.spec.targetNameSpaces
        namespace == targetNameSpaces[p.i]
        sourceConfigMap == p.sourceConfigMap[1]
    IN  /\ p.pc = "loop"
        /\ p.i <= Len(targetNameSpaces)
        /\ namespace # SyncNamespace
        /\ \/ /\ SyncFault
              /\ sync' = [sync EXCEPT !.events = @ + 1,
                                      !.pass = NextNamespace(p, "failed", "get target failed")]
           \/ /\ sync.targets[namespace] = <<>>
              /\ sync' = [sync EXCEPT !.pass =
                            [p EXCEPT !.pc = "create",
                                      !.targetConfigMap =
                                          <<NewTargetConfigMap(p.configMapSync, sourceConfigMap,
                                                               namespace)>>]]
           \/ /\ sync.targets[namespace] # <<>>
              /\ LET existing == sync.targets[namespace][1]
                     obj == Mutate(existing, sourceConfigMap)
                 IN  sync' = [sync EXCEPT !.pass =
                                IF obj = existing
                                THEN NextNamespace(p, "ok", NoError)
                                ELSE [p EXCEPT !.pc = "update",
                                               !.read = <<existing>>,
                                               !.targetConfigMap = <<obj>>]]
        /\ UNCHANGED <<cms, cm, src, clock, events, pass, written, calc>>

\* controllerutil.CreateOrUpdate: the Create
CreateOrUpdateCreate ==
    LET p == Call(sync.pass, "CreateTarget")
        namespace == p.configMapSync.spec.targetNameSpaces[p.i]
    IN  /\ p.pc = "create"
        /\ \/ /\ sync.targets[namespace] # <<>>
              /\ sync' = [sync EXCEPT !.pass = NextNamespace(p, "failed", "already exists")]
           \/ /\ sync.targets[namespace] = <<>>
              /\ SyncFault
              /\ sync' = [sync EXCEPT !.events = @ + 1,
                                      !.pass = NextNamespace(p, "failed", "create target failed")]
           \/ /\ sync.targets[namespace] = <<>>
              /\ sync' = [sync EXCEPT !.targets[namespace] = p.targetConfigMap,
                                      !.pass = NextNamespace(p, "ok", NoError)]
        /\ UNCHANGED <<cms, cm, src, clock, events, pass, written, calc>>

\* controllerutil.CreateOrUpdate: the Update, refused when the ConfigMap is
\* no longer the one the Get read
CreateOrUpdateUpdate ==
    LET p == Call(sync.pass, "UpdateTarget")
        namespace == p.configMapSync.spec.targetNameSpaces[p.i]
    IN  /\ p.pc = "update"
        /\ \/ /\ sync.targets[namespace] # p.read
              /\ sync' = [sync EXCEPT !.pass = NextNamespace(p, "failed", "conflict")]
           \/ /\ sync.targets[namespace] = p.read
              /\ SyncFault
              /\ sync' = [sync EXCEPT !.events = @ + 1,
                                      !.pass = NextNamespace(p, "failed", "update target failed")]
           \/ /\ sync.targets[namespace] = p.read
              /\ sync' = [sync EXCEPT !.targets[namespace] = p.targetConfigMap,
                                      !.pass = NextNamespace(p, "ok", NoError)]
        /\ UNCHANGED <<cms, cm, src, clock, events, pass, written, calc>>

\* lines 126-137
SyncStatusUpdate ==
    LET p == Call(sync.pass, "StatusUpdate")
        o == SyncStatus(p.configMapSync, p.syncedNamespaces, sync.now)
    IN  /\ p.pc = "loop"
        /\ p.i > Len(p.configMapSync.spec.targetNameSpaces)
        /\ \/ /\ ~sync.configMapSync.exists
              /\ sync' = [sync EXCEPT !.pass = Finish([p EXCEPT !.configMapSync = o],
                                                      Result(0, "not found"))]
           \/ /\ sync.configMapSync.exists
              /\ sync.configMapSync.spec # p.configMapSync.spec
              /\ sync' = [sync EXCEPT !.pass = Finish([p EXCEPT !.configMapSync = o],
                                                      Result(0, "conflict"))]
           \/ /\ sync.configMapSync.exists
              /\ sync.configMapSync.spec = p.configMapSync.spec
              /\ SyncFault
              /\ sync' = [sync EXCEPT !.events = @ + 1,
                                      !.pass = Finish([p EXCEPT !.configMapSync = o],
                                                      Result(0, "status update failed"))]
           \/ /\ sync.configMapSync.exists
              /\ sync.configMapSync.spec = p.configMapSync.spec
              /\ sync' = [sync EXCEPT !.configMapSync.status = o.status,
                                      !.pass = Finish([p EXCEPT !.configMapSync = o,
                                                                !.stored = TRUE],
                                                      RequeuePeriodically)]
        /\ UNCHANGED <<cms, cm, src, clock, events, pass, written, calc>>

\* the pass has returned; the dispatcher may run the next
SyncReturn ==
    /\ sync.pass.pc = "done"
    /\ sync' = [sync EXCEPT !.pass = SyncIdle]
    /\ UNCHANGED <<cms, cm, src, clock, events, pass, written, calc>>

\* The environment of the fan-out: the clock, the owner of the source, the
\* other clients of the target namespaces.
SyncTick ==
    /\ SyncFault
    /\ sync' = [sync EXCEPT !.events = @ + 1, !.now = @ + 1]
    /\ UNCHANGED <<cms, cm, src, clock, events, pass, written, calc>>

SourcePut ==
    /\ SyncFault
    /\ \E c \in SourceChoices2 \ {x \in SourceChoices2 : sync.sourceConfigMap = <<x>>} :
          sync' = [sync EXCEPT !.events = @ + 1, !.sourceConfigMap = <<c>>]
    /\ UNCHANGED <<cms, cm, src, clock, events, pass, written, calc>>

SourceDelete ==
    /\ SyncFault
    /\ sync.sourceConfigMap # <<>>
    /\ sync' = [sync EXCEPT !.events = @ + 1, !.sourceConfigMap = <<>>]
    /\ UNCHANGED <<cms, cm, src, clock, events, pass, written, calc>>

TargetPut ==
    /\ SyncFault
    /\ \E n \in SyncNamespaces \ {SyncNamespace}, c \in ExternalCopies :
          /\ sync.targets[n] # <<c>>
          /\ sync' = [sync EXCEPT !.events = @ + 1, !.targets[n] = <<c>>]
    /\ UNCHANGED <<cms, cm, src, clock, events, pass, written, calc>>

TargetDelete ==
    /\ SyncFault
    /\ \E n \in SyncNamespaces \ {SyncNamespace} :
          /\ sync.targets[n] # <<>>
          /\ sync' = [sync EXCEPT !.events = @ + 1, !.targets[n] = <<>>]
    /\ UNCHANGED <<cms, cm, src, clock, events, pass, written, calc>>

\* The fan-out system: one ConfigMapSync record, its source there or not,
\* a target namespace empty or holding a ConfigMap of another client.
SyncInit ==
    /\ cms = [r \in Reqs |-> NoRecord]
    /\ cm = [n \in Namespaces |-> <<>>]
    /\ src = [r \in Reqs |-> MapAB_C]
    /\ clock = 0
    /\ events = 0
    /\ pass = [r \in Reqs |-> Idle]
    /\ written = [r \in Reqs |-> <<>>]
    /\ calc = NoCalc
    /\ \E targetNameSpaces \in TargetNameSpacesChoices, labels \in LabelChoices,
          source \in {<<>>, <<Copy({}, MapAB_C, MapA_BC)>>},
          existing \in {<<>>} \cup {<<c>> : c \in ExternalCopies} :
          sync = [NoSync EXCEPT
                     !.configMapSync = ConfigMapSync(targetNameSpaces, labels),
                     !.sourceConfigMap = source,
                     !.targets = [n \in SyncNamespaces |->
                                     IF n = "ns2" THEN existing ELSE <<>>]]

SyncReconcile ==
    \/ SyncGet
    \/ SyncGetSource
    \/ SyncSkip
    \/ CreateOrUpdateGet
    \/ CreateOrUpdateCreate
    \/ CreateOrUpdateUpdate
    \/ SyncStatusUpdate
    \/ SyncReturn

SyncEnvironment ==
    \/ SyncTick
    \/ SourcePut
    \/ SourceDelete
    \/ TargetPut
    \/ TargetDelete

SyncNext == SyncReconcile \/ SyncEnvironment

SyncSpec == SyncInit /\ [][SyncNext]_vars

(***************************************************************************)
(* The life of the ConfigMapSync record: its owner edits the list of       *)
(* target namespaces and deletes the record while the passes run.  A       *)
(* record without finalizers is erased by the API server as soon as it is  *)
(* deleted; one with finalizers would stay, marked as under deletion.      *)
(***************************************************************************)
SyncEditTargetNameSpaces ==
    /\ SyncFault
    /\ sync.configMapSync.exists
    /\ \E targetNameSpaces \in
            TargetNameSpacesChoices \ {sync.configMapSync.spec.targetNameSpaces} :
          sync' = [sync EXCEPT !.events = @ + 1,
                               !.configMapSync.spec.targetNameSpaces = targetNameSpaces]
    /\ UNCHANGED <<cms, cm, src, clock, events, pass, written, calc>>

SyncDelete ==
    /\ SyncFault
    /\ sync.configMapSync.exists
    /\ ~sync.configMapSync.deleting
    /\ sync' = [sync EXCEPT !.events = @ + 1,
                            !.configMapSync =
                                IF @.finalizers = {} THEN NoConfigMapSync
                                ELSE [@ EXCEPT !.deleting = TRUE]]
    /\ UNCHANGED <<cms, cm, src, clock, events, pass, written, calc>>

SyncLifeNext ==
    \/ SyncReconcile
    \/ SyncEditTargetNameSpaces
    \/ SyncDelete

SyncLifeSpec == SyncInit /\ [][SyncLifeNext]_vars

(***************************************************************************)
(* The key filter of fetchFromConfigMap and fetchFromSecret                *)
(* (src/controller.go, lines 365-380 and 408-423), applied alone to the    *)
(* Data of the source read and the Keys of the descriptor.                 *)
(***************************************************************************)
\* the longest list of Keys
MaxKeys == 2
KeyB == <<2>>
KeysChoices == UNION {[1..n -> Keys \cup {KeyB}] : n \in 0..MaxKeys}

\* resultData[key] = value
Put(resultData, key, value) ==
    [k \in DOMAIN resultData \cup {key} |-> IF k = key THEN value ELSE resultData[k]]
\* string(value) of a []byte: the string of the same bytes
String(value) == value

\* lines 367-371: a key of the list that the source lacks is assigned the
\* zero value instead of being left out
RECURSIVE FilterKeys_NoExists(_, _, _)
FilterKeys_NoExists(keys, data, resultData) ==
    IF keys = <<>> THEN resultData
    ELSE FilterKeys_NoExists(Tail(keys), data,
            Put(resultData, Head(keys),
                IF Head(keys) \in DOMAIN data THEN data[Head(keys)] ELSE <<>>))
\* lines 367-371 and 410-414: the loop over the Keys
RECURSIVE FilterKeys(_, _, _)
FilterKeys(keys, data, resultData) ==
    IF keys = <<>> THEN resultData
    ELSE FilterKeys(Tail(keys), data,
            IF Head(keys) \in DOMAIN data
            THEN Put(resultData, Head(keys), data[Head(keys)])
            ELSE resultData)

\* lines 373-377 and 416-420: the loop over the Data
RECURSIVE CopyAll(_, _, _)
CopyAll(todo, data, resultData) ==
    IF todo = {} THEN resultData
    ELSE LET key == CHOOSE k \in todo : TRUE
         IN  CopyAll(todo \ {key}, data, Put(resultData, key, data[key]))

\* lines 365-380
fetchFromConfigMap(keys, data) ==
    IF Len(keys) > 0 THEN FilterKeys(keys, data, EmptyMap)
    ELSE CopyAll(DOMAIN data, data, EmptyMap)
\* lines 408-423: the values of a Secret are []byte
fetchFromSecret(keys, data) ==
    LET text == [k \in DOMAIN data |-> String(data[k])]
    IN  IF Len(keys) > 0 THEN FilterKeys(keys, text, EmptyMap)
        ELSE CopyAll(DOMAIN text, text, EmptyMap)

\* every variable but calc, as it is when there is no record of either kind
NoCluster ==
    /\ cms = [r \in Reqs |-> NoRecord]
    /\ cm = [n \in Namespaces |-> <<>>]
    /\ src = [r \in Reqs |-> MapAB_C]
    /\ clock = 0
    /\ events = 0
    /\ pass = [r \in Reqs |-> Idle]
    /\ written = [r \in Reqs |-> <<>>]
    /\ sync = NoSync

ProjectionInit ==
    /\ NoCluster
    /\ \E sourceType \in {"ConfigMap", "Secret"}, data \in AllMaps, keys \in KeysChoices :
          calc = [pc |-> "input", sourceType |-> sourceType, data |-> data,
                  keys |-> keys, resultData |-> EmptyMap]

FetchFromSource ==
    /\ calc.pc = "input"
    /\ calc' = [calc EXCEPT
                   !.pc = "fetched",
                   !.resultData = IF calc.sourceType = "ConfigMap"
                                  THEN fetchFromConfigMap(calc.keys, calc.data)
                                  ELSE fetchFromSecret(calc.keys, calc.data)]
    /\ UNCHANGED <<cms, cm, src, clock, events, pass, written, sync>>

ProjectionNext == FetchFromSource

ProjectionSpec == ProjectionInit /\ [][ProjectionNext]_vars

(***************************************************************************)
(* calculateConfigHash (src/controller.go, lines 471-488) applied alone.   *)
(* The range over a Go map yields the keys in an order that is not         *)
(* specified: keys is the slice the loop of lines 475-478 has built, any   *)
(* arrangement of the keys of configData.                                  *)
(***************************************************************************)
HashKeys == Keys \cup {KeyB}
HashMaps == UNION {[K -> Vals] : K \in SUBSET HashKeys}
\* the arrangements of a set of keys
Arrangements(S) ==
    {keys \in [1..Cardinality(S) -> S] : \A k \in S : \E i \in DOMAIN keys : keys[i] = k}
\* configData with the value of one key replaced by another value
Replacements(configData) ==
    {[configData EXCEPT ![k] = v] :
        k \in DOMAIN configData, v \in Vals \cup {<<>>}} \ {configData}

RECURSIVE InsertSorted(_, _)
InsertSorted(key, sorted) ==
    IF sorted = <<>> THEN <<key>>
    ELSE IF StringLess(key, Head(sorted)) THEN <<key>> \o sorted
    ELSE <<Head(sorted)>> \o InsertSorted(key, Tail(sorted))
\* the slice is left as the loop built it
SortSlice_None(keys) == keys
\* line 479: sort.Strings(keys)
RECURSIVE SortSlice(_)
SortSlice(keys) ==
    IF keys = <<>> THEN <<>>
    ELSE InsertSorted(Head(keys), SortSlice(Tail(keys)))

\* lines 471-488, keys being the slice of lines 474-478
calculateConfigHashOf(keys, configData) ==
    EncodeToString(Sum256(HashWrites(SortSlice(keys), configData)))

FingerprintInit ==
    /\ NoCluster
    /\ \E configData \in HashMaps :
       \E keys \in Arrangements(DOMAIN configData),
          otherKeys \in Arrangements(DOMAIN configData),
          changed \in IF DOMAIN configData = {} THEN {configData}
                      ELSE Replacements(configData) :
          calc = [pc |-> "input", configData |-> configData, keys |-> keys,
                  otherKeys |-> otherKeys, changed |-> changed,
                  configHash |-> EmptyString, otherHash |-> EmptyString,
                  changedHash |-> EmptyString]

\* the function is applied to configData twice, the range over the map
\* yielding keys and otherKeys, and once to the map changed
CalculateConfigHash ==
    /\ calc.pc = "input"
    /\ \E changedKeys \in Arrangements(DOMAIN calc.changed) :
          calc' = [calc EXCEPT
                      !.pc = "hashed",
                      !.configHash = calculateConfigHashOf(calc.keys, calc.configData),
                      !.otherHash = calculateConfigHashOf(calc.otherKeys, calc.configData),
                      !.changedHash = calculateConfigHashOf(changedKeys, calc.changed)]
    /\ UNCHANGED <<cms, cm, src, clock, events, pass, written, sync>>

FingerprintNext == CalculateConfigHash

FingerprintSpec == FingerprintInit /\ [][FingerprintNext]_vars

(***************************************************************************)
(* fetchFromGit (src/controller.go, lines 258-327) run for the records A   *)
(* and B side by side.  calc.dirs is the set of the directories there are  *)
(* under os.TempDir(), calc.fetch the position of the call of each record  *)
(* with its local tempDir and the error it returns.  Every call the        *)
(* function makes may succeed or fail; os.RemoveAll removes the directory  *)
(* (its error is discarded by the defer statement of line 269).            *)
(***************************************************************************)
MaxWorkspaces == 2
MaxFetches == 2
\* the names ioutil.TempDir can give: "git-config-" and a random suffix
WorkspaceNames == 1..MaxWorkspaces
\* spec.git: nil, without authSecretRef, with authSecretRef
GitChoices == {"nil", "anonymous", "ssh"}

GitIdle ==
    [pc |-> "idle", git |-> "nil", tempDir |-> <<>>, err |-> NoError, fetches |-> 0]

\* ioutil.TempDir creates a directory that was not there
TempDirNames(dirs) == WorkspaceNames \ dirs
\* a faulty variant of RemoveAll: the directory stays
RemoveAll_None(dirs, tempDir) == dirs
RemoveAll(dirs, tempDir) == dirs \ {tempDir}

\* the function returns err; the deferred call of line 269 is still to run
DeferredReturn(f, err) == [f EXCEPT !.pc = "deferred", !.err = err]

GitStep(r, f) ==
    /\ calc' = [calc EXCEPT !.fetch[r] = f]
    /\ UNCHANGED <<cms, cm, src, clock, events, pass, written, sync>>

\* lines 258-262: the call, and its return when spec.git is nil
fetchFromGit(r) ==
    LET f == calc.fetch[r] IN
    /\ calc.pc = "git"
    /\ f.pc \in {"idle", "returned"}
    /\ f.fetches < MaxFetches
    /\ \E git \in GitChoices :
          GitStep(r, [pc |-> IF git = "nil" THEN "returned" ELSE "tempDir",
                      git |-> git, tempDir |-> <<>>,
                      err |-> IF git = "nil"
                              THEN "Git source configuration is missing" ELSE NoError,
                      fetches |-> f.fetches + 1])

\* lines 265-269
TempDir(r) ==
    LET f == calc.fetch[r] IN
    /\ calc.pc = "git"
    /\ f.pc = "tempDir"
    /\ \/ GitStep(r, [f EXCEPT !.pc = "returned",
                                !.err = "failed to create temporary directory"])
       \/ \E d \in TempDirNames(calc.dirs) :
             /\ calc' = [calc EXCEPT
                            !.dirs = @ \cup {d},
                            !.fetch[r] = [f EXCEPT !.tempDir = <<d>>,
                                                   !.pc = IF f.git = "ssh"
                                                          THEN "authSecret" ELSE "clone"]]
             /\ UNCHANGED <<cms, cm, src, clock, events, pass, written, sync>>

GitCall(r, pc, next, err) ==
    LET f == calc.fetch[r] IN
    /\ calc.pc = "git"
    /\ f.pc = pc
    /\ \/ GitStep(r, DeferredReturn(f, err))
       \/ GitStep(r, [f EXCEPT !.pc = next])

\* lines 289-291: r.Get of the auth secret
GetAuthSecret(r) == GitCall(r, "authSecret", "authKey", "failed to get auth secret")
\* lines 294-297: secret.Data[authSecretRef.key]
AuthKey(r) == GitCall(r, "authKey", "publicKeys", "SSH key not found in secret")
\* lines 300-303
NewPublicKeysFromFile(r) ==
    GitCall(r, "publicKeys", "signer", "failed to create SSH auth")
\* lines 304-307
NewSignerFromSigner(r) ==
    GitCall(r, "signer", "clone", "failed to create signer from SSH key")
\* lines 319-322
PlainClone(r) == GitCall(r, "clone", "read", "failed to clone repository")

\* lines 325-326: the error of readConfigFiles, or none, is returned
readConfigFiles(r) ==
    LET f == calc.fetch[r] IN
    /\ calc.pc = "git"
    /\ f.pc = "read"
    /\ \/ GitStep(r, DeferredReturn(f, "failed to read"))
       \/ GitStep(r, DeferredReturn(f, NoError))

\* line 269: the deferred os.RemoveAll(tempDir) runs, the function returns
GitReturn(r) ==
    LET f == calc.fetch[r] IN
    /\ calc.pc = "git"
    /\ f.pc = "deferred"
    /\ calc' = [calc EXCEPT !.dirs = RemoveAll(@, f.tempDir[1]),
                            !.fetch[r] = [f EXCEPT !.pc = "returned"]]
    /\ UNCHANGED <<cms, cm, src, clock, events, pass, written, sync>>

GitInit ==
    /\ NoCluster
    /\ calc = [pc |-> "git", dirs |-> {}, fetch |-> [r \in Reqs |-> GitIdle]]

GitFetch(r) ==
    \/ fetchFromGit(r)
    \/ TempDir(r)
    \/ GetAuthSecret(r)
    \/ AuthKey(r)
    \/ NewPublicKeysFromFile(r)
    \/ NewSignerFromSigner(r)
    \/ PlainClone(r)
    \/ readConfigFiles(r)
    \/ GitReturn(r)

GitNext == GitFetch("A") \/ GitFetch("B")

GitSpec == GitInit /\ [][GitNext]_vars

(***************************************************************************)
(* setStatusCondition (src/controller.go, lines 502-528) applied again and *)
(* again to a record whose conditions list starts empty, with conditions   *)
(* of several types; the generation of the record grows when its spec is   *)
(* edited.  calc.now is what metav1.Now() returns, later at every call;    *)
(* calc.condition is the argument of the last call and calc.replaced what  *)
(* that call found at the index of the type.                               *)
(***************************************************************************)
MaxUpserts == 3
MaxGeneration == 2
ConditionTypes == {"Ready", "Progressing", "Degraded"}
ConditionStatuses == {"True", "False"}

ConditionInit ==
    /\ NoCluster
    /\ calc = [pc |-> "conditions",
               o |-> [generation |-> 1, status |-> ConfigMapSourceStatus],
               now |-> 0, condition |-> <<>>, replaced |-> <<>>]

Upsert ==
    /\ calc.pc = "conditions"
    /\ calc.now < MaxUpserts
    /\ \E type \in ConditionTypes, status \in ConditionStatuses :
          LET condition == Condition(type, status, "Reason", "message")
              conditionIndex == ConditionIndex(calc.o.status.conditions, type)
          IN  calc' = [calc EXCEPT
                          !.o = setStatusCondition(calc.o, condition, calc.now + 1),
                          !.now = calc.now + 1,
                          !.condition = <<condition>>,
                          !.replaced = IF conditionIndex # 0
                                       THEN <<calc.o.status.conditions[conditionIndex]>>
                                       ELSE <<>>]
    /\ UNCHANGED <<cms, cm, src, clock, events, pass, written, sync>>

\* an edit of the spec: the API server raises metadata.generation
EditSpec ==
    /\ calc.pc = "conditions"
    /\ calc.o.generation < MaxGeneration
    /\ calc' = [calc EXCEPT !.o.generation = @ + 1]
    /\ UNCHANGED <<cms, cm, src, clock, events, pass, written, sync>>

ConditionNext == Upsert \/ EditSpec

ConditionSpec == ConditionInit /\ [][ConditionNext]_vars

(***************************************************************************)
(* The specification: one record, A, and the environment.                  *)
(***************************************************************************)
Init ==
    /\ \E spec \in InitialSpecs :
          cms = [r \in Reqs |-> IF r = "A" THEN ConfigMapSource(spec) ELSE NoRecord]
    /\ cm = [n \in Namespaces |-> <<>>]
    /\ src = [r \in Reqs |-> MapAB_C]
    /\ clock = 0
    /\ events = 0
    /\ pass = [r \in Reqs |-> Idle]
    /\ written = [r \in Reqs |-> <<>>]
    /\ sync = NoSync
    /\ calc = NoCalc

Reconcile(r) ==
    \/ Get(r)
    \/ AttachFinalizer(r)
    \/ DeleteReadTarget(r)
    \/ DeleteTarget(r)
    \/ DetachFinalizer(r)
    \/ Fetch(r)
    \/ StatusFetchFailed(r)
    \/ StatusUnchanged(r)
    \/ ReadTarget(r)
    \/ UpdateTarget(r)
    \/ CreateTarget(r)
    \/ StatusSynced(r)
    \/ Return(r)

Environment(r) ==
    \/ Tick
    \/ SourceChange(r)
    \/ RequestDeletion(r)
    \/ EditTargetNamespace(r)
    \/ ExternalCreate(r)
    \/ ExternalEdit(r)
    \/ ExternalDelete(r)

Next == Reconcile("A") \/ Environment("A")

Spec == Init /\ [][Next]_vars

(***************************************************************************)
(* The undisturbed system: the dispatcher keeps running the pass of the    *)
(* record, nobody but the engine writes a ConfigMap, and nobody edits the  *)
(* spec of the record.  The source may change, calls may fail, and the     *)
(* record may be deleted, each a bounded number of times.                  *)
(***************************************************************************)
UndisturbedNext ==
    \/ Reconcile("A")
    \/ Tick
    \/ SourceChange("A")
    \/ RequestDeletion("A")

UndisturbedSpec == Init /\ [][UndisturbedNext]_vars /\ WF_vars(Reconcile("A"))

(***************************************************************************)
(* Two records, A and B, of the same namespace that name the same target   *)
(* ConfigMap and read different sources.  The dispatcher runs the passes   *)
(* of the two side by side, at most one pass per record; calls may fail    *)
(* and either record may be deleted.                                       *)
(***************************************************************************)
RaceSpecOfRecord ==
    [sourceType |-> "ConfigMap", descriptor |-> TRUE,
     targetNamespace |-> "", refreshInterval |-> <<>>]

RaceInit ==
    /\ cms = [r \in Reqs |-> ConfigMapSource(RaceSpecOfRecord)]
    /\ cm = [n \in Namespaces |-> <<>>]
    /\ src = [r \in Reqs |-> IF r = "A" THEN MapAB_C ELSE MapBoth]
    /\ clock = 0
    /\ events = 0
    /\ pass = [r \in Reqs |-> Idle]
    /\ written = [r \in Reqs |-> <<>>]
    /\ sync = NoSync
    /\ calc = NoCalc

RaceNext ==
    \/ Reconcile("A")
    \/ Reconcile("B")
    \/ RequestDeletion("A")
    \/ RequestDeletion("B")

RaceSpec == RaceInit /\ [][RaceNext]_vars

(***************************************************************************)
(* Deletion under fair redelivery: the dispatcher keeps running the pass   *)
(* of the record while the record is deleted, its spec is edited and       *)
(* another client creates and deletes the ConfigMap.  Failing calls,       *)
(* edits and the writes of the other client are bounded by MaxEvents, so   *)
(* they stop at some point.                                                *)
(***************************************************************************)
DeletionNext ==
    \/ Reconcile("A")
    \/ RequestDeletion("A")
    \/ EditTargetNamespace("A")
    \/ ExternalCreate("A")
    \/ ExternalDelete("A")

DeletionSpec == Init /\ [][DeletionNext]_vars /\ WF_vars(Reconcile("A"))

(***************************************************************************)
(* The claims.  A step of the pass for r is a step that changes pass[r].   *)
(***************************************************************************)
TargetCalls == {"GetTarget", "CreateTarget", "UpdateTarget", "DeleteTarget"}
\* the pass has read the target and found r's identity among its owners
ReadOwned(r) ==
    /\ pass[r].configMapExists
    /\ UID(r) \in pass[r].targetConfigMap[1].ownerReferences
\* the target namespace the pass has resolved from the record it read
Resolved(r) ==
    IF pass[r].configMapSource.spec.targetNamespace = "" THEN Namespace(r)
    ELSE pass[r].configMapSource.spec.targetNamespace
\* the ConfigMap in namespace n carries r's identity as an owner
Owned(c, r) == c # <<>> /\ UID(r) \in c[1].ownerReferences

\* C1: a step of a deletion pass changes a target ConfigMap only by deleting
\* it, only in the record's own namespace when that is the resolved target
\* namespace, and only when the ConfigMap the pass read carries the record's
\* UID as an owner; so a ConfigMap read with another owner or none, and a
\* target in another namespace, are as they were after every step of the
\* pass, the removal of the finalizer included.
C1_OwnershipGatedDeletion ==
    [][\A r \in Reqs :
          (pass'[r] # pass[r] /\ pass[r].configMapSource.deleting) =>
             \A n \in Namespaces :
                 cm'[n] # cm[n] =>
                    /\ cm'[n] = <<>>
                    /\ n = Namespace(r)
                    /\ n = Resolved(r)
                    /\ ReadOwned(r)]_vars

\* a deletion pass has removed the finalizer, the record is erased, and the
\* ConfigMap it read without its UID among the owners is still there
C1_Witness ==
    \E r \in Reqs :
        /\ pass[r].pc = "done"
        /\ pass[r].configMapSource.deleting
        /\ pass[r].result.err = NoError
        /\ ~cms[r].exists
        /\ pass[r].configMapExists
        /\ ~ReadOwned(r)
        /\ cm[Namespace(r)] = pass[r].targetConfigMap

\* the step removes the finalizer of r
FinalizerRemoved(r) ==
    /\ FinalizerName \in cms[r].finalizers
    /\ FinalizerName \notin cms'[r].finalizers
\* the finalizer is removed only by the last step of a deletion pass that
\* found the target in another namespace, read it as absent, read it as not
\* owned, or had its delete call return success or not-found
RemovedAfterCleanup(r) ==
    /\ pass[r].configMapSource.deleting
    /\ pass'[r].pc = "done"
    /\ \/ Resolved(r) # Namespace(r)
       \/ "GetTarget" \in pass[r].calls /\ ~pass[r].configMapExists
       \/ "GetTarget" \in pass[r].calls /\ pass[r].configMapExists /\ ~ReadOwned(r)
       \/ "DeleteTarget" \in pass[r].calls

\* C2 as stated: the finalizer is removed only after the cleanup, and right
\* after its removal no ConfigMap owned by the record is left under the
\* target name in the record's own namespace.
C2_Original ==
    [][\A r \in Reqs :
          FinalizerRemoved(r) =>
             /\ RemovedAfterCleanup(r)
             /\ ~Owned(cm'[Namespace(r)], r)]_vars

\* C2, amended: the finalizer is removed only after the cleanup, and right
\* after its removal no ConfigMap owned by the record is left under the
\* target name in the record's own namespace, provided the spec of the
\* record (its target namespace) was never edited.
C2_FinalizerRemovedAfterCleanup ==
    [][\A r \in Reqs :
          FinalizerRemoved(r) =>
             /\ RemovedAfterCleanup(r)
             /\ cms[r].generation = 1 => ~Owned(cm'[Namespace(r)], r)]_vars

\* the finalizer was removed by a pass that deleted the owned target
C2_Witness ==
    \E r \in Reqs :
        /\ pass[r].pc = "done"
        /\ "DeleteTarget" \in pass[r].calls
        /\ pass[r].result.err = NoError
        /\ pass[r].configMapSource.generation = 1
        /\ ~cms[r].exists
        /\ cm[Namespace(r)] = <<>>

\* C3 as stated: a ConfigMap the record has created or updated carries the
\* record's owner reference iff it is in the record's own namespace.
C3_Original ==
    \A r \in Reqs, n \in Namespaces :
        (cm[n] # <<>> /\ r \in cm[n][1].writtenBy) =>
            (Owned(cm[n], r) <=> n = Namespace(r))

\* C3, amended: a ConfigMap carries the record's owner reference iff the
\* record created it and it is in the record's own namespace; a ConfigMap
\* that existed before and that the record updated carries none.
C3_OwnerReferenceIffCreatedInOwnNamespace ==
    \A r \in Reqs, n \in Namespaces :
        cm[n] # <<>> =>
            (Owned(cm[n], r) <=> (cm[n][1].createdBy = r /\ n = Namespace(r)))

\* the record has updated a ConfigMap of its own namespace that another
\* client had created, and has created one in the other namespace
C3_Witness ==
    \E r \in Reqs :
        /\ cm[Namespace(r)] # <<>>
        /\ cm[Namespace(r)][1].createdBy = External
        /\ r \in cm[Namespace(r)][1].writtenBy
        /\ \E n \in Namespaces \ {Namespace(r)} :
              cm[n] # <<>> /\ cm[n][1].createdBy = r

\* C4: an active pass that returns no error and has fetched the content map
\* the pass before it fetched, that pass an active pass without error too,
\* makes no call on the target, leaves lastSyncHash and the conditions as
\* they were and sets lastSyncTime to the time it read, not an earlier one.
C4_Idempotence ==
    \A r \in Reqs :
        ( /\ pass[r].pc = "done"
          /\ pass[r].result.err = NoError
          /\ "Fetch" \in pass[r].calls
          /\ pass[r].previous = <<pass[r].configData>> ) =>
            /\ pass[r].calls \cap TargetCalls = {}
            /\ cms[r].status.lastSyncHash = pass[r].before.status.lastSyncHash
            /\ cms[r].status.conditions = pass[r].before.status.conditions
            /\ cms[r].status.lastSyncTime # <<>>
            /\ pass[r].before.status.lastSyncTime # <<>>
            /\ cms[r].status.lastSyncTime[1] >= pass[r].before.status.lastSyncTime[1]

\* the second of two such passes has ended, the clock ticked in between
C4_Witness ==
    \E r \in Reqs :
        /\ pass[r].pc = "done"
        /\ pass[r].result.err = NoError
        /\ "Fetch" \in pass[r].calls
        /\ pass[r].previous = <<pass[r].configData>>
        /\ cm[Resolved(r)] # <<>>
        /\ cm[Resolved(r)][1].data = pass[r].configData
        /\ cms[r].status.lastSyncTime[1] > pass[r].before.status.lastSyncTime[1]

\* C5 as stated, between passes: a non-empty lastSyncHash is the fingerprint
\* of the content map the record last wrote to its target.
C5_Original ==
    \A r \in Reqs :
        (pass[r].pc = "idle" /\ cms[r].status.lastSyncHash # EmptyString) =>
            /\ written[r] # <<>>
            /\ cms[r].status.lastSyncHash = calculateConfigHash(written[r][1])

\* C5, amended: every step that changes the persisted lastSyncHash ends a
\* pass without error and sets the hash to the fingerprint of the content
\* map the record last wrote to its target; no pass that ends with an error
\* changes it.
C5_HashPersistedIsHashWritten ==
    [][\A r \in Reqs :
          (cms'[r].exists /\ cms'[r].status.lastSyncHash # cms[r].status.lastSyncHash) =>
             /\ pass'[r].pc = "done"
             /\ pass'[r].result.err = NoError
             /\ written'[r] # <<>>
             /\ cms'[r].status.lastSyncHash = calculateConfigHash(written'[r][1])]_vars

\* a pass has replaced one persisted hash by another
C5_Witness ==
    \E r \in Reqs :
        /\ pass[r].pc = "done"
        /\ pass[r].result.err = NoError
        /\ pass[r].before.status.lastSyncHash # EmptyString
        /\ cms[r].status.lastSyncHash # pass[r].before.status.lastSyncHash

\* the record is active with a valid source
Active(r) ==
    /\ cms[r].exists
    /\ FinalizerName \in cms[r].finalizers
    /\ ~cms[r].deleting
    /\ cms[r].spec.sourceType \in KnownSourceTypes
    /\ cms[r].spec.descriptor
\* the target ConfigMap of the record exists and holds the content map c
TargetHolds(r, c) ==
    LET n == IF cms[r].spec.targetNamespace = "" THEN Namespace(r)
             ELSE cms[r].spec.targetNamespace
    IN  cm[n] # <<>> /\ cm[n][1].data = c

\* C6: under fair delivery of passes, once the record stays active and its
\* source holds the content map c for good, the target ConfigMap eventually
\* exists with the data c, for good.  (The changes of the source and the
\* failures of calls are finitely many.)
C6_Convergence ==
    \A c \in Contents :
        <>[](Active("A") /\ src["A"] = c) => <>[]TargetHolds("A", c)


\* a pass has a Ready condition False with the reason FetchFailed
ReadyFalseFetchFailed(conditions) ==
    \E i \in 1..Len(conditions) :
        /\ conditions[i].type = "Ready"
        /\ conditions[i].status = "False"
        /\ conditions[i].reason = "FetchFailed"

\* C7: once the fetch of a pass has failed the record of the pass has the
\* Ready condition False, reason FetchFailed, and the pass ends having called
\* the status write and returns the fetch error with a delay of sixty
\* seconds, whatever the refresh interval and the fate of the status write.
C7_FetchFailureOutcome ==
    \A r \in Reqs :
        pass[r].fetchErr # NoError =>
            /\ "Fetch" \in pass[r].calls
            /\ ReadyFalseFetchFailed(pass[r].configMapSource.status.conditions)
            /\ pass[r].pc \in {"statusFetchFailed", "done"}
            /\ pass[r].pc = "done" =>
                  /\ "StatusUpdate" \in pass[r].calls
                  /\ pass[r].result = [requeueAfter |-> 60, err |-> pass[r].fetchErr]

\* a fetch has failed for a record with a refresh interval of 30 seconds and
\* the status write has failed too
C7_Witness ==
    \E r \in Reqs :
        /\ pass[r].pc = "done"
        /\ pass[r].fetchErr # NoError
        /\ cms[r].spec.refreshInterval = <<30>>
        /\ cms[r].status.conditions = <<>>

\* C8: no step of a pass whose fetch has failed changes a target ConfigMap,
\* and after each the persisted lastSyncHash and lastSyncTime are those the
\* record had when the pass began.
C8_FetchFailureFrame ==
    [][\A r \in Reqs :
          (pass'[r] # pass[r] /\ pass'[r].fetchErr # NoError) =>
             /\ cm' = cm
             /\ written' = written
             /\ cms'[r].status.lastSyncHash = pass'[r].before.status.lastSyncHash
             /\ cms'[r].status.lastSyncTime = pass'[r].before.status.lastSyncTime]_vars

\* a record that had synced has stored the condition of a failed fetch
C8_Witness ==
    \E r \in Reqs :
        /\ pass[r].pc = "done"
        /\ pass[r].fetchErr # NoError
        /\ pass[r].before.status.lastSyncHash # EmptyString
        /\ ReadyFalseFetchFailed(cms[r].status.conditions)

\* C9: an active pass that returns no error returns the refresh interval as
\* its delay when the interval is set and positive, and no delay otherwise.
C9_ResyncPolicy ==
    \A r \in Reqs :
        ( /\ pass[r].pc = "done"
          /\ "Fetch" \in pass[r].calls
          /\ pass[r].result.err = NoError ) =>
            LET interval == pass[r].configMapSource.spec.refreshInterval
            IN  pass[r].result.requeueAfter =
                   IF interval # <<>> /\ interval[1] > 0 THEN interval[1] ELSE 0

\* a pass on the unchanged path has returned a delay of 30 seconds
C9_Witness ==
    \E r \in Reqs :
        /\ pass[r].pc = "done"
        /\ "Fetch" \in pass[r].calls
        /\ "GetTarget" \notin pass[r].calls
        /\ pass[r].result = [requeueAfter |-> 30, err |-> NoError]

\* C10: a pass that began on a record without the finalizer calls nothing
\* but the read of the record and its update, leaves the status as it was,
\* and ends with no delay, without error exactly when the finalizer is
\* stored; so a pass that fetches or touches the target or the status began
\* on a record that had the finalizer.
C10_FinalizerAttachment ==
    \A r \in Reqs :
        ( /\ pass[r].pc # "idle"
          /\ pass[r].before.exists
          /\ FinalizerName \notin pass[r].before.finalizers ) =>
            /\ pass[r].calls \subseteq {"Get", "Update"}
            /\ cms[r].status = pass[r].before.status
            /\ pass[r].pc = "done" =>
                  /\ pass[r].result.requeueAfter = 0
                  /\ pass[r].result.err = NoError =>
                        /\ "Update" \in pass[r].calls
                        /\ FinalizerName \in cms[r].finalizers

\* a pass has stored the finalizer and ended
C10_Witness ==
    \E r \in Reqs :
        /\ pass[r].pc = "done"
        /\ pass[r].before.exists
        /\ FinalizerName \notin pass[r].before.finalizers
        /\ pass[r].result = [requeueAfter |-> 0, err |-> NoError]
        /\ FinalizerName \in cms[r].finalizers


(***************************************************************************)
(* The claims about the fan-out.                                           *)
(***************************************************************************)
\* the namespaces of the list whose iteration ended "ok", in the list's order
RECURSIVE OkNamespaces(_, _)
OkNamespaces(targetNameSpaces, outcome) ==
    IF targetNameSpaces = <<>> \/ outcome = <<>> THEN <<>>
    ELSE (IF Head(outcome) = "ok" THEN <<Head(targetNameSpaces)>> ELSE <<>>)
         \o OkNamespaces(Tail(targetNameSpaces), Tail(outcome))
\* the fan-out pass has ended after its loop over the target namespaces
LoopDone ==
    /\ sync.pass.pc = "done"
    /\ "StatusUpdate" \in sync.pass.calls

\* C11 as stated: after a pass that went through its loop every namespace
\* of the list has had its iteration, and the stored syncedNamespaces is the
\* list of the namespaces whose write succeeded in this pass, in order.
C11_Original ==
    LoopDone =>
        /\ Len(sync.pass.outcome) = Len(sync.pass.configMapSync.spec.targetNameSpaces)
        /\ sync.configMapSync.status.syncedNamespaces =
              OkNamespaces(sync.pass.configMapSync.spec.targetNameSpaces,
                           sync.pass.outcome)

\* C11: after a pass that went through its loop every namespace of the list
\* has had its iteration, whatever failed before it; the only error the pass
\* returns is that of the status update; when the status update succeeded
\* the stored syncedNamespaces is the list of the namespaces whose write
\* succeeded in this pass, in order; when it failed the stored status is the
\* one the pass began with.
C11_FanoutIsolation ==
    LoopDone =>
        /\ Len(sync.pass.outcome) = Len(sync.pass.configMapSync.spec.targetNameSpaces)
        /\ sync.pass.stored <=> sync.pass.result.err = NoError
        /\ sync.pass.stored =>
              sync.configMapSync.status.syncedNamespaces =
                 OkNamespaces(sync.pass.configMapSync.spec.targetNameSpaces,
                              sync.pass.outcome)
        /\ ~sync.pass.stored =>
              /\ sync.pass.result.err = "status update failed"
              /\ sync.configMapSync.status = sync.pass.before

\* a pass whose first write failed has written the second namespace and
\* stored a list that drops the namespace the pass before had synced
C11_Witness ==
    /\ LoopDone
    /\ sync.pass.outcome = <<"failed", "ok">>
    /\ sync.pass.before.syncedNamespaces = <<"ns2", "ns3">>
    /\ sync.configMapSync.status.syncedNamespaces = <<"ns3">>

\* C12 as stated: every pass that went through its loop returns a delay of
\* five minutes.
C12_Original ==
    LoopDone => sync.pass.result.requeueAfter = 300

\* C12: a pass that went through its loop returns a delay of five minutes
\* and no error when its status update succeeded, whatever writes failed,
\* and returns the error of the status update and no delay when it failed.
C12_FixedDelayWhenStatusStored ==
    LoopDone =>
        /\ sync.pass.stored =>
              sync.pass.result = [requeueAfter |-> 300, err |-> NoError]
        /\ ~sync.pass.stored =>
              /\ sync.pass.result.requeueAfter = 0
              /\ sync.pass.result.err # NoError

\* a pass with a failed write has stored its status and returned five minutes
C12_Witness ==
    /\ LoopDone
    /\ sync.pass.stored
    /\ \E i \in 1..Len(sync.pass.outcome) : sync.pass.outcome[i] = "failed"
    /\ sync.pass.result.requeueAfter = 300

\* C13: a pass that finds no source ConfigMap returns no error and a delay
\* of ten seconds, has called nothing but the two reads, and leaves the
\* status of the record as it was.
C13_MissingSource ==
    ( /\ sync.pass.pc = "done"
      /\ "GetSource" \in sync.pass.calls
      /\ sync.pass.sourceConfigMap = <<>>
      /\ sync.pass.result.err = NoError ) =>
        /\ sync.pass.result = [requeueAfter |-> 10, err |-> NoError]
        /\ sync.pass.calls = {"Get", "GetSource"}
        /\ sync.pass.outcome = <<>>
        /\ sync.configMapSync.status = sync.pass.before

\* a record that had synced finds its source gone
C13_Witness ==
    /\ sync.pass.pc = "done"
    /\ "GetSource" \in sync.pass.calls
    /\ sync.pass.result.requeueAfter = 10
    /\ sync.pass.before.syncedNamespaces # <<>>
    /\ sync.sourceConfigMap = <<>>

\* C14: when an iteration of the loop ends "ok", so that its namespace is in
\* the list the pass reports, the ConfigMap in that namespace carries the
\* labels of the record and the Data and BinaryData of the source the pass
\* read.
C14_CopyCarriesLabelsAndData ==
    [][LET p == sync.pass
           q == sync'.pass
           namespace == p.configMapSync.spec.targetNameSpaces[p.i]
       IN  ( /\ Len(q.outcome) = Len(p.outcome) + 1
             /\ q.outcome[Len(q.outcome)] = "ok" ) =>
               /\ sync'.targets[namespace] # <<>>
               /\ sync'.targets[namespace][1].labels = p.configMapSync.spec.labels
               /\ sync'.targets[namespace][1].data = p.sourceConfigMap[1].data
               /\ sync'.targets[namespace][1].binaryData = p.sourceConfigMap[1].binaryData]_vars

(***************************************************************************)
(* The claims about the functions and about materialization.               *)
(***************************************************************************)
\* C15: with a list of Keys that is not empty the adapter of a ConfigMap and
\* that of a Secret return the source's Data restricted to the keys of the
\* list that the Data has, and with an empty list they return the Data.
C15_Projection ==
    calc.pc = "fetched" =>
        calc.resultData =
            IF calc.keys = <<>> THEN calc.data
            ELSE [k \in {calc.keys[i] : i \in DOMAIN calc.keys} \cap DOMAIN calc.data |->
                     calc.data[k]]

\* the adapter of a Secret was given a key the Secret lacks and one it has
C15_Witness ==
    /\ calc.pc = "fetched"
    /\ calc.sourceType = "Secret"
    /\ calc.keys = <<KeyB, KeyA>>
    /\ calc.data = MapBoth
    /\ DOMAIN calc.resultData = {KeyA}

\* C16: the digest of a map is the same whatever the order in which the
\* range over the map yielded its keys.
C16_OrderIndependence ==
    calc.pc = "hashed" => calc.configHash = calc.otherHash

\* a map of three keys was hashed from two different arrangements
C16_Witness ==
    /\ calc.pc = "hashed"
    /\ Len(calc.keys) = 3
    /\ calc.keys # calc.otherKeys

\* C17: replacing the value of one key by another value changes the digest.
C17_Sensitivity ==
    (calc.pc = "hashed" /\ calc.changed # calc.configData) =>
        calc.changedHash # calc.configHash

\* a map of two keys and the same map with the value of its first key
\* replaced by a longer one have been hashed
C17_Witness ==
    /\ calc.pc = "hashed"
    /\ calc.configData = MapBoth
    /\ calc.changed = [MapBoth EXCEPT ![KeyA] = ValBC]

\* C18: the map {ab: c} and the map {a: bc} have the same digest: a pass
\* that fetches {a: bc} when the pass before it had fetched {ab: c} and
\* returned no error takes the unchanged path, it never reads the target.
C18_BoundaryCollision ==
    \A r \in Reqs :
        ( /\ "Fetch" \in pass[r].calls
          /\ pass[r].fetchErr = NoError
          /\ pass[r].previous = <<MapAB_C>>
          /\ pass[r].configData = MapA_BC ) =>
            /\ "GetTarget" \notin pass[r].calls
            /\ pass[r].pc \in {"statusUnchanged", "done"}

\* such a pass has ended while the target holds {ab: c}
C18_Witness ==
    \E r \in Reqs :
        /\ pass[r].pc = "done"
        /\ "Fetch" \in pass[r].calls
        /\ pass[r].previous = <<MapAB_C>>
        /\ pass[r].configData = MapA_BC
        /\ pass[r].result.err = NoError
        /\ written[r] = <<MapAB_C>>
        /\ src[r] = MapA_BC

\* C19: a successful create or update of the target leaves it with exactly
\* the content map the pass fetched as its data.
C19_FullReplace ==
    [][\A r \in Reqs :
          ( /\ pass[r].pc \in {"create", "update"}
            /\ pass'[r].pc = "statusSynced" ) =>
              /\ cm'[pass[r].targetNamespace] # <<>>
              /\ cm'[pass[r].targetNamespace][1].data = pass[r].configData]_vars

\* an update has replaced data that had a key the fetched content lacks
C19_Witness ==
    \E r \in Reqs :
        /\ pass[r].pc = "statusSynced"
        /\ "UpdateTarget" \in pass[r].calls
        /\ pass[r].targetConfigMap[1].data = MapBoth
        /\ pass[r].configData = MapAB_C
        /\ cm[pass[r].targetNamespace] # <<>>
        /\ cm[pass[r].targetNamespace][1].data = MapAB_C

\* the spec the pass read names no known source type, or lacks the
\* descriptor of its type
Misconfigured(r) ==
    \/ pass[r].configMapSource.spec.sourceType \notin {"Git", "File", "ConfigMap", "Secret"}
    \/ ~pass[r].configMapSource.spec.descriptor

\* C20 as stated: a pass on a misconfigured record returns an error and
\* requests no delay.
C20_Original ==
    \A r \in Reqs :
        (pass[r].pc = "done" /\ "Fetch" \in pass[r].calls /\ Misconfigured(r)) =>
            /\ pass[r].result.err # NoError
            /\ pass[r].result.requeueAfter = 0

\* C20: a pass on a misconfigured record is a pass whose fetch failed: it
\* returns the error of the configuration with a delay of sixty seconds,
\* the Ready condition False with the reason FetchFailed.
C20_ConfigurationErrorIsFetchFailure ==
    \A r \in Reqs :
        (pass[r].pc = "done" /\ "Fetch" \in pass[r].calls /\ Misconfigured(r)) =>
            /\ pass[r].result.err \in {"unsupported source type",
                                        "source configuration is missing"}
            /\ pass[r].result.requeueAfter = 60
            /\ ReadyFalseFetchFailed(pass[r].configMapSource.status.conditions)
            /\ pass[r].calls = {"Get", "Fetch", "StatusUpdate"}

\* a pass on a record of an unknown source type has ended
C20_Witness ==
    \E r \in Reqs :
        /\ pass[r].pc = "done"
        /\ "Fetch" \in pass[r].calls
        /\ pass[r].configMapSource.spec.sourceType = "Bogus"
        /\ pass[r].result.err = "unsupported source type"

(***************************************************************************)
(* The claims about deletion, failures and conditions.                     *)
(***************************************************************************)
\* C21: in a deletion pass the step of r.Delete goes on to the removal of
\* the finalizer only with the ConfigMap gone, deleted by the call or found
\* absent by it; a deletion pass that ends with the error of the read or of
\* the delete of the target has changed neither the record nor the
\* ConfigMaps, the record keeps its finalizer and stays under deletion, and
\* the pass asks for no delay.
C21_DeletionErrors ==
    [][\A r \in Reqs :
          /\ (pass[r].pc = "delete" /\ pass'[r].pc = "removeFinalizer") =>
                /\ cm'[pass[r].targetNamespace] = <<>>
                /\ cms' = cms
          /\ ( /\ pass[r].pc \in {"loaded", "delete"}
               /\ pass'[r].pc = "done"
               /\ pass'[r].result.err \in {"get target failed", "delete failed"}
               /\ pass[r].configMapSource.deleting ) =>
                /\ cms' = cms
                /\ cm' = cm
                /\ cms'[r].exists
                /\ cms'[r].deleting
                /\ "configmapsource.config.example.com/finalizer" \in cms'[r].finalizers
                /\ pass'[r].result.requeueAfter = 0
                /\ "Update" \notin pass'[r].calls]_vars

\* the delete of an owned ConfigMap has failed: the ConfigMap and the
\* finalizer are still there
C21_Witness ==
    \E r \in Reqs :
        /\ pass[r].pc = "done"
        /\ pass[r].result.err = "delete failed"
        /\ cm[pass[r].targetNamespace] # <<>>
        /\ UID(r) \in cm[pass[r].targetNamespace][1].ownerReferences
        /\ cms[r].deleting
        /\ cms[r].finalizers # {}

\* C22: a record that carries the finalizer and has its deletion requested
\* is eventually gone, under fair redelivery and with failures that stop;
\* and a record under deletion stays under deletion until it is gone, it
\* never becomes active again.
C22_DeletionLiveness ==
    /\ \A r \in Reqs :
          ( /\ cms[r].exists
            /\ cms[r].deleting
            /\ "configmapsource.config.example.com/finalizer" \in cms[r].finalizers )
          ~> ~cms[r].exists
    /\ [][\A r \in Reqs :
            (cms[r].exists /\ cms[r].deleting) =>
                (~cms'[r].exists \/ cms'[r].deleting)]_vars

\* the record is gone after a deletion pass that deleted its ConfigMap
C22_Witness ==
    \E r \in Reqs :
        /\ ~cms[r].exists
        /\ pass[r].pc = "done"
        /\ pass[r].before.exists
        /\ pass[r].before.deleting
        /\ "DeleteTarget" \in pass[r].calls
        /\ "Update" \in pass[r].calls
        /\ pass[r].result.err = ""

\* C23: a pass that ends at the read, the create or the update of the
\* target ends with the error of that call and no delay; it has set no
\* condition and written no status, the record and the ConfigMaps are as
\* they were, and the fingerprint stored is still not the one fetched.
C23_MaterializeFailure ==
    [][\A r \in Reqs :
          (pass[r].pc \in {"getTarget", "update", "create"} /\ pass'[r].pc = "done") =>
              /\ pass'[r].result.err # ""
              /\ pass'[r].result.requeueAfter = 0
              /\ "StatusUpdate" \notin pass'[r].calls
              /\ pass'[r].configMapSource.status = pass'[r].before.status
              /\ cms' = cms
              /\ cm' = cm
              /\ cms'[r].status = pass'[r].before.status
              /\ cms'[r].status.lastSyncHash # pass'[r].configHash]_vars

\* the update of the target has failed in a pass on a record synced before
C23_Witness ==
    \E r \in Reqs :
        /\ pass[r].pc = "done"
        /\ pass[r].result.err = "update target failed"
        /\ cms[r].status.lastSyncHash # <<>>
        /\ cms[r].status.lastSyncHash # pass[r].configHash
        /\ cms[r].status.conditions # <<>>

\* C24: a pass whose status write fails after the target was written ends
\* with an error and no delay and leaves the record as it was; and every
\* pass that writes the target and then the status with success, a pass
\* that follows such a failure included, stores the fingerprint of the
\* content it fetched and the one Ready condition True, and its update of a
\* target that held that content already leaves the data as it was.
C24_StatusWriteFailure ==
    [][\A r \in Reqs :
          /\ ( /\ pass[r].pc = "statusSynced"
               /\ pass'[r].pc = "done"
               /\ pass'[r].result.err # "" ) =>
                /\ pass'[r].result.requeueAfter = 0
                /\ cms' = cms
                /\ cms'[r].status = pass'[r].before.status
          /\ ( /\ pass[r].pc = "statusSynced"
               /\ pass'[r].pc = "done"
               /\ pass'[r].result.err = "" ) =>
                /\ cms'[r].status.lastSyncHash = calculateConfigHash(pass'[r].configData)
                /\ cms'[r].status.lastSyncTime # <<>>
                /\ Len(cms'[r].status.conditions) = 1
                /\ cms'[r].status.conditions[1].type = "Ready"
                /\ cms'[r].status.conditions[1].status = "True"
                /\ cms'[r].status.conditions[1].reason = "SyncSuccess"
                /\ cm' = cm
          /\ ( /\ pass[r].pc = "update"
               /\ pass'[r].pc = "statusSynced"
               /\ pass[r].targetConfigMap[1].data = pass[r].configData ) =>
                /\ cm'[pass[r].targetNamespace] # <<>>
                /\ cm'[pass[r].targetNamespace][1].data = pass[r].configData
                /\ cm[pass[r].targetNamespace][1].data = pass[r].configData]_vars

\* a pass has stored the status of a ConfigMap that the record had created
\* with the same content while its status was still empty: the status write
\* of the pass that created it had failed
C24_Witness ==
    \E r \in Reqs :
        /\ pass[r].pc = "done"
        /\ pass[r].result.err = ""
        /\ "UpdateTarget" \in pass[r].calls
        /\ "StatusUpdate" \in pass[r].calls
        /\ pass[r].before.status.lastSyncHash = <<>>
        /\ pass[r].before.status.conditions = <<>>
        /\ pass[r].targetConfigMap[1].createdBy = r
        /\ pass[r].targetConfigMap[1].writtenBy = {r}
        /\ pass[r].targetConfigMap[1].data = pass[r].configData
        /\ cms[r].status.lastSyncHash = pass[r].configHash
        /\ cms[r].status.conditions # <<>>

\* C25: with two records that name the same ConfigMap, a step of the pass
\* of either is possible in every state, whatever the other is doing; an
\* update of a ConfigMap that is still as the pass read it can succeed,
\* whoever created, owns or wrote it; every successful write of a pass
\* leaves the ConfigMap with exactly the content that pass fetched; and
\* nothing but a write or a delete of a pass changes the ConfigMap, so its
\* data is the content of the last write.
C25_LastWriterWins ==
    /\ [](\A r \in Reqs : ENABLED Reconcile(r))
    /\ [](\A r \in Reqs :
            (pass[r].pc = "update" /\ cm[pass[r].targetNamespace] = pass[r].targetConfigMap)
                => ENABLED (UpdateTarget(r) /\ pass'[r].pc = "statusSynced"))
    /\ [](\A n \in Namespaces :
            cm[n] # <<>> => \E r \in Reqs : written[r] = <<cm[n][1].data>>)
    /\ [][/\ \A r \in Reqs :
               (pass[r].pc \in {"update", "create"} /\ pass'[r].pc = "statusSynced") =>
                   /\ cm'[pass[r].targetNamespace] # <<>>
                   /\ cm'[pass[r].targetNamespace][1].data = pass[r].configData
                   /\ written'[r] = <<pass[r].configData>>
          /\ cm' # cm =>
               \E r \in Reqs :
                   \/ pass[r].pc \in {"update", "create"} /\ pass'[r].pc = "statusSynced"
                   \/ pass[r].pc = "delete" /\ pass'[r].pc = "removeFinalizer"]_vars

\* both records have stored the fingerprint of their own content; the
\* ConfigMap was created and is owned by A and holds the content of B, who
\* wrote it last
C25_Witness ==
    /\ cm["ns1"] # <<>>
    /\ cm["ns1"][1].createdBy = "A"
    /\ cm["ns1"][1].ownerReferences = {UID("A")}
    /\ cm["ns1"][1].writtenBy = {"A", "B"}
    /\ cm["ns1"][1].data = src["B"]
    /\ cm["ns1"][1].data # src["A"]
    /\ cms["A"].exists
    /\ cms["B"].exists
    /\ cms["A"].status.lastSyncHash = calculateConfigHash(src["A"])
    /\ cms["B"].status.lastSyncHash = calculateConfigHash(src["B"])
    /\ pass["A"].pc = "idle"
    /\ pass["B"].pc = "idle"

\* C26: every directory there is belongs to a call of fetchFromGit that
\* has created it and not yet returned, so a call that has returned has
\* left none behind, whatever its error; the calls of two records that
\* run side by side have different directories, and the directory of a
\* running call is there.
C26_WorkspaceRelease ==
    /\ calc.pc = "git" =>
        /\ \A d \in calc.dirs :
              \E r \in Reqs :
                  /\ calc.fetch[r].pc \notin {"idle", "tempDir", "returned"}
                  /\ calc.fetch[r].tempDir = <<d>>
        /\ \A r \in Reqs :
              calc.fetch[r].pc \notin {"idle", "tempDir", "returned"} =>
                  /\ calc.fetch[r].tempDir # <<>>
                  /\ calc.fetch[r].tempDir[1] \in calc.dirs
        /\ \A r1, r2 \in Reqs :
              ( /\ r1 # r2
                /\ calc.fetch[r1].pc \notin {"idle", "tempDir", "returned"}
                /\ calc.fetch[r2].pc \notin {"idle", "tempDir", "returned"} ) =>
                  calc.fetch[r1].tempDir # calc.fetch[r2].tempDir

\* the call of A has returned the error of the clone and its directory is
\* gone, while the call of B is cloning into its own
C26_Witness ==
    /\ calc.pc = "git"
    /\ calc.fetch["A"].pc = "returned"
    /\ calc.fetch["A"].err = "failed to clone repository"
    /\ calc.fetch["A"].tempDir # <<>>
    /\ calc.fetch["B"].pc = "clone"
    /\ calc.dirs = {calc.fetch["B"].tempDir[1]}
    /\ calc.fetch["A"].tempDir[1] \notin calc.dirs

\* C27: the update of a ConfigMap that is there writes the ConfigMap as the
\* pass read it with nothing but its data replaced, the owner references
\* it was read with included; and a ConfigMap that another client created
\* never carries the owner reference of the record, in whichever namespace
\* it is.
C27_OwnerReferenceOnlyOnCreate ==
    /\ [](\A r \in Reqs, n \in Namespaces :
            (cm[n] # <<>> /\ cm[n][1].createdBy # r) =>
                UID(r) \notin cm[n][1].ownerReferences)
    /\ [][\A r \in Reqs :
            (pass[r].pc = "update" /\ pass'[r].pc = "statusSynced") =>
                LET n == pass[r].targetNamespace IN
                /\ cm[n] = pass[r].targetConfigMap
                /\ cm'[n] # <<>>
                /\ cm'[n][1].ownerReferences = cm[n][1].ownerReferences
                /\ cm'[n][1].createdBy = cm[n][1].createdBy
                /\ cm'[n][1].data = pass[r].configData
                /\ \A m \in Namespaces \ {n} : cm'[m] = cm[m]]_vars

\* the record has updated, in its own namespace, a ConfigMap that another
\* client had created with the owner reference of something else: the
\* ConfigMap holds the record's content and the owner reference it had
C27_Witness ==
    \E r \in Reqs :
        /\ cm[Namespace(r)] # <<>>
        /\ cm[Namespace(r)][1].createdBy = External
        /\ r \in cm[Namespace(r)][1].writtenBy
        /\ cm[Namespace(r)][1].ownerReferences = {ForeignUID}
        /\ written[r] = <<cm[Namespace(r)][1].data>>
        /\ cms[r].exists
        /\ cms[r].status.lastSyncHash # <<>>

\* C28: the status write of a pass that found the fingerprint unchanged
\* changes the lastSyncTime of the record and nothing else: the conditions
\* and the lastSyncHash stored are the ones that were stored, and no
\* ConfigMap changes.
C28_UnchangedPassKeepsConditions ==
    [][\A r \in Reqs :
          ( /\ pass[r].pc = "statusUnchanged"
            /\ pass'[r].pc = "done"
            /\ pass'[r].result.err = "" ) =>
              /\ cms'[r].status.conditions = cms[r].status.conditions
              /\ cms'[r].status.conditions = pass'[r].before.status.conditions
              /\ cms'[r].status.lastSyncHash = cms[r].status.lastSyncHash
              /\ cms'[r].status.lastSyncTime # <<>>
              /\ [cms'[r] EXCEPT !.status.lastSyncTime = <<>>]
                    = [cms[r] EXCEPT !.status.lastSyncTime = <<>>]
              /\ cm' = cm]_vars

\* a pass has fetched with success the content whose fingerprint is stored
\* and has written the status, and the Ready condition that an earlier
\* failed fetch set to False is still False
C28_Witness ==
    \E r \in Reqs :
        /\ pass[r].pc = "done"
        /\ pass[r].result.err = ""
        /\ pass[r].fetchErr = ""
        /\ pass[r].calls = {"Get", "Fetch", "StatusUpdate"}
        /\ cms[r].status.lastSyncHash = pass[r].configHash
        /\ cms[r].status.lastSyncTime # pass[r].before.status.lastSyncTime
        /\ Len(cms[r].status.conditions) = 1
        /\ cms[r].status.conditions[1].type = "Ready"
        /\ cms[r].status.conditions[1].status = "False"
        /\ cms[r].status.conditions[1].reason = "FetchFailed"

\* C29: in a conditions list built from the empty list by calls of
\* setStatusCondition no two entries have the same type; a call with a type
\* that is in the list replaces the entry of that type where it is and
\* leaves the length and every other entry as they were, a call with a type
\* that is not in the list appends; the entry written has the type, status,
\* reason and message of the argument, the generation of the record as
\* observedGeneration and the time of the call as lastTransitionTime, later
\* than the one of the entry it replaces whatever the status of that was.
C29_ConditionUpsert ==
    /\ [](calc.pc = "conditions" =>
            \A i, j \in 1..Len(calc.o.status.conditions) :
                calc.o.status.conditions[i].type = calc.o.status.conditions[j].type
                    => i = j)
    /\ [][(calc.pc = "conditions" /\ calc'.now # calc.now) =>
            LET old == calc.o.status.conditions
                new == calc'.o.status.conditions
                arg == calc'.condition[1]
                c == [type |-> arg.type, status |-> arg.status,
                      reason |-> arg.reason, message |-> arg.message,
                      lastTransitionTime |-> calc'.now,
                      observedGeneration |-> calc.o.generation]
            IN  /\ calc'.o.generation = calc.o.generation
                /\ (\E i \in 1..Len(old) : old[i].type = arg.type) =>
                      /\ Len(new) = Len(old)
                      /\ \A i \in 1..Len(old) :
                            /\ old[i].type # arg.type => new[i] = old[i]
                            /\ old[i].type = arg.type =>
                                  /\ new[i] = c
                                  /\ new[i].lastTransitionTime > old[i].lastTransitionTime
                /\ (\A i \in 1..Len(old) : old[i].type # arg.type) =>
                      new = Append(old, c)]_vars

\* the first of two conditions was replaced where it is after the second
\* was appended, by a call with the status the condition had and after an
\* edit of the spec: it has the later time and the new generation
C29_Witness ==
    /\ calc.pc = "conditions"
    /\ Len(calc.o.status.conditions) = 2
    /\ calc.replaced # <<>>
    /\ calc.replaced[1].type = calc.o.status.conditions[1].type
    /\ calc.replaced[1].status = calc.o.status.conditions[1].status
    /\ calc.replaced[1].observedGeneration = 1
    /\ calc.o.status.conditions[1].observedGeneration = 2
    /\ calc.o.status.conditions[1].lastTransitionTime
            > calc.o.status.conditions[2].lastTransitionTime
    /\ calc.o.status.conditions[2].lastTransitionTime
            > calc.replaced[1].lastTransitionTime

\* C30: a pass that read the record with the finalizer and under deletion
\* calls nothing but the read of the record, the read and the delete of
\* the target and the update that removes the finalizer; it never fetches,
\* the status stored stays as it was, the only change it makes to a
\* ConfigMap is the deletion of the target and the only change to the
\* record the removal of the finalizer, after which the record is gone.
C30_NoSyncUnderDeletion ==
    /\ [](\A r \in Reqs :
            ( /\ pass[r].pc # "idle"
              /\ pass[r].before.exists
              /\ pass[r].before.deleting
              /\ "configmapsource.config.example.com/finalizer"
                    \in pass[r].before.finalizers ) =>
                /\ pass[r].calls \subseteq {"Get", "GetTarget", "DeleteTarget", "Update"}
                /\ pass[r].configData = EmptyMap
                /\ cms[r].exists => cms[r].status = pass[r].before.status)
    /\ [][\A r \in Reqs :
            ( /\ pass'[r] # pass[r]
              /\ pass[r].pc \notin {"idle", "done"}
              /\ pass[r].before.exists
              /\ pass[r].before.deleting
              /\ "configmapsource.config.example.com/finalizer"
                    \in pass[r].before.finalizers ) =>
                /\ \/ cm' = cm
                   \/ /\ pass[r].pc = "delete"
                      /\ cm' = [cm EXCEPT ![pass[r].targetNamespace] = <<>>]
                /\ \/ cms' = cms
                   \/ /\ pass[r].pc \in {"loaded", "removeFinalizer"}
                      /\ ~cms'[r].exists
                /\ written' = written]_vars

\* a record that was synced, and whose source has changed since, is gone
\* after a deletion pass that deleted the ConfigMap with the old content
C30_Witness ==
    \E r \in Reqs :
        /\ pass[r].pc = "done"
        /\ pass[r].before.exists
        /\ pass[r].before.deleting
        /\ pass[r].before.status.lastSyncHash # <<>>
        /\ pass[r].calls = {"Get", "GetTarget", "DeleteTarget", "Update"}
        /\ written[r] # <<>>
        /\ written[r] # <<src[r]>>
        /\ calculateConfigHash(src[r]) # pass[r].before.status.lastSyncHash
        /\ ~cms[r].exists
        /\ cm[pass[r].targetNamespace] = <<>>

(***************************************************************************)
(* The claims about change detection, shared targets and the fan-out.      *)
(***************************************************************************)
\* C31: a pass whose fetch succeeded with the fingerprint that was stored
\* when the pass read the record makes no call on the target, neither a
\* read nor a write, and its steps change no ConfigMap, whatever has
\* become of the target since the last sync.
C31_DigestOnlyChangeDetection ==
    /\ [](\A r \in Reqs :
            ( /\ pass[r].pc \in {"statusUnchanged", "done"}
              /\ "Fetch" \in pass[r].calls
              /\ pass[r].fetchErr = ""
              /\ pass[r].configHash = pass[r].before.status.lastSyncHash ) =>
                pass[r].calls \cap
                    {"GetTarget", "CreateTarget", "UpdateTarget", "DeleteTarget"} = {})
    /\ [][\A r \in Reqs :
            ( /\ pass'[r] # pass[r]
              /\ pass[r].pc \in {"loaded", "statusUnchanged"}
              /\ pass'[r].pc \in {"statusUnchanged", "done"}
              /\ "Fetch" \in pass'[r].calls
              /\ pass'[r].fetchErr = ""
              /\ pass'[r].configHash = pass'[r].before.status.lastSyncHash ) =>
                /\ cm' = cm
                /\ written' = written]_vars

\* the target the record had written was deleted by another client, and a
\* pass that fetched the same fingerprint has ended with success and has
\* not created it again
C31_Witness ==
    \E r \in Reqs :
        /\ pass[r].pc = "done"
        /\ pass[r].result.err = ""
        /\ pass[r].fetchErr = ""
        /\ pass[r].calls = {"Get", "Fetch", "StatusUpdate"}
        /\ pass[r].configHash = cms[r].status.lastSyncHash
        /\ written[r] = <<pass[r].configData>>
        /\ cm[pass[r].targetNamespace] = <<>>

\* C32: the fetch of a pass on a record whose lastSyncHash is the empty
\* string never finds the fingerprint unchanged, whatever the content, the
\* empty map included: the fingerprint is not the empty string, the pass
\* goes on to the read of the target, and when it ends with success it has
\* created or updated the target with the content it fetched.
C32_FirstSyncAlwaysChanged ==
    /\ [](\A r \in Reqs :
            ( /\ pass[r].pc = "done"
              /\ pass[r].result.err = ""
              /\ "Fetch" \in pass[r].calls
              /\ pass[r].fetchErr = ""
              /\ pass[r].before.status.lastSyncHash = <<>> ) =>
                /\ "GetTarget" \in pass[r].calls
                /\ pass[r].calls \cap {"CreateTarget", "UpdateTarget"} # {}
                /\ written[r] = <<pass[r].configData>>
                /\ pass[r].configHash # <<>>)
    /\ [][\A r \in Reqs :
            ( /\ pass[r].pc = "loaded"
              /\ pass'[r].pc \in {"statusUnchanged", "getTarget"}
              /\ pass[r].configMapSource.status.lastSyncHash = <<>> ) =>
                /\ pass'[r].pc = "getTarget"
                /\ pass'[r].configHash # <<>>
                /\ pass'[r].configData = src[r]]_vars

\* the first sync of a record whose source holds the empty map has created
\* the target with no data and stored a fingerprint
C32_Witness ==
    \E r \in Reqs :
        /\ pass[r].pc = "done"
        /\ pass[r].result.err = ""
        /\ pass[r].before.status.lastSyncHash = <<>>
        /\ pass[r].configData = EmptyMap
        /\ "CreateTarget" \in pass[r].calls
        /\ cm[pass[r].targetNamespace] # <<>>
        /\ DOMAIN cm[pass[r].targetNamespace][1].data = {}
        /\ cms[r].exists
        /\ cms[r].status.lastSyncHash # <<>>

\* C33: with two records of one namespace that name the same ConfigMap of
\* that namespace, the ConfigMap carries the owner reference of the record
\* that created it and of no other, whoever has written it since; the
\* deletion pass of a record goes on to the delete of a ConfigMap it reads
\* exactly when that record created it; a ConfigMap is deleted only by the
\* deletion pass of the record that created it; and no step of the
\* deletion pass of the other record changes it.
C33_OwnerIsTheCreator ==
    /\ [](\A n \in Namespaces :
            cm[n] # <<>> =>
                /\ cm[n][1].createdBy \in Reqs
                /\ cm[n][1].ownerReferences = {UID(cm[n][1].createdBy)})
    /\ [][\A r \in Reqs :
            LET n == Namespace(r) IN
            /\ ( /\ pass[r].pc = "loaded"
                 /\ pass[r].configMapSource.deleting
                 /\ pass'[r].pc \in {"delete", "removeFinalizer"}
                 /\ cm[n] # <<>> ) =>
                    (pass'[r].pc = "delete" <=> cm[n][1].createdBy = r)
            /\ (pass[r].pc = "delete" /\ pass'[r] # pass[r] /\ cm' # cm) =>
                    /\ cm[n] # <<>>
                    /\ cm[n][1].createdBy = r
                    /\ cm'[n] = <<>>
            /\ (cm[n] # <<>> /\ cm'[n] = <<>>) =>
                    \E d \in Reqs :
                        /\ pass[d].pc = "delete"
                        /\ pass'[d] # pass[d]
                        /\ cm[n][1].createdBy = d
            /\ ( /\ pass'[r] # pass[r]
                 /\ pass[r].pc # "idle"
                 /\ pass[r].before.exists
                 /\ pass[r].before.deleting
                 /\ cm[n] # <<>>
                 /\ cm[n][1].createdBy # r ) =>
                    cm' = cm]_vars

\* A, who had created the ConfigMap, is gone and so is the ConfigMap that
\* B had overwritten; B is there, not under deletion, with a fingerprint
\* stored
C33_Witness ==
    /\ ~cms["A"].exists
    /\ cm["ns1"] = <<>>
    /\ written["A"] # <<>>
    /\ written["B"] # <<>>
    /\ cms["B"].exists
    /\ ~cms["B"].deleting
    /\ cms["B"].status.lastSyncHash # <<>>
    /\ pass["A"].pc = "idle"
    /\ pass["B"].pc = "idle"

\* C34: the namespace of the ConfigMapSync record never holds a copy; no
\* ConfigMap of a target namespace carries an owner reference; the record
\* never has a finalizer, so its deletion erases it at once; no step, of a
\* pass or of the owner of the record, removes a ConfigMap that is there;
\* and a step of a pass changes nothing of the record but its status.
C34_FanoutNeverOwnsNorDeletes ==
    /\ [](/\ sync.targets["ns1"] = <<>>
          /\ \A n \in {"ns1", "ns2", "ns3"} :
                sync.targets[n] # <<>> => sync.targets[n][1].ownerReferences = {}
          /\ sync.configMapSync.finalizers = {}
          /\ ~sync.configMapSync.deleting
          /\ sync.pass.configMapSync.finalizers = {})
    /\ [][/\ \A n \in {"ns1", "ns2", "ns3"} :
               sync.targets[n] # <<>> => sync'.targets[n] # <<>>
          /\ sync'.pass # sync.pass =>
               /\ sync'.configMapSync.exists = sync.configMapSync.exists
               /\ sync'.configMapSync.spec = sync.configMapSync.spec
               /\ sync'.configMapSync.finalizers = sync.configMapSync.finalizers
               /\ "DeleteTarget" \notin sync'.pass.calls]_vars

\* ns3 was taken off the list of the record, a pass over the list without
\* it has stored its status, and the record was then deleted: the copies
\* the passes had made in ns2 and in ns3 are both there
C34_Witness ==
    /\ ~sync.configMapSync.exists
    /\ sync.pass.pc = "done"
    /\ sync.pass.stored
    /\ sync.pass.configMapSync.spec.targetNameSpaces = <<"ns2">>
    /\ sync.pass.configMapSync.spec.labels = {<<"team", "a">>}
    /\ sync.pass.syncedNamespaces = <<"ns2">>
    /\ sync.targets["ns2"] # <<>>
    /\ sync.targets["ns3"] # <<>>
    /\ sync.targets["ns3"][1].labels = {<<"team", "a">>}
    /\ sync.targets["ns3"][1].data = sync.pass.sourceConfigMap[1].data
    /\ sync.targets["ns3"][1].binaryData = sync.pass.sourceConfigMap[1].binaryData
    /\ sync.targets["ns3"][1].ownerReferences = {}

====
